---- MODULE Spec2Model ----
(***************************************************************************)
(* VrootKV storage-format substrate: WAL record codec, SSTable format      *)
(* types, data/index block builders and readers, Bloom filter.             *)
(*                                                                         *)
(* Byte strings (std::string, std::string_view) are sequences over 0..255. *)
(* A std::string_view cursor is the sequence of the bytes still in view;   *)
(* remove_prefix(n) drops the first n of them.                             *)
(*                                                                         *)
(* Fixed-width unsigned integers that can hold values the model checker's  *)
(* integers cannot (uint32_t, uint64_t read from untrusted bytes, CRCs,    *)
(* hashes, transaction ids, block handles) are modelled by their object    *)
(* representation on a little-endian host: a tuple of 4 or 8 bytes, least  *)
(* significant first ("word").  memcpy of such an integer to or from a     *)
(* buffer copies exactly these bytes.  Sizes of the model's own strings    *)
(* are plain integers; ToWord converts them.  size_t is 64 bits wide.      *)
(***************************************************************************)
EXTENDS Integers, Sequences, FiniteSets, TLC

VARIABLES
    walIn,      \* WAL: the std::string_view cursor handed to ParseFrame
    walLog,     \* WAL: the records whose frames were appended to the stream
    walTamper,  \* WAL: what happened to the stream after it was written
    walOut,     \* WAL: the records ParseFrame has returned, in call order
    walStatus,  \* WAL: outcome of the last ParseFrame call ("none" before)
    walPrev,    \* WAL: the cursor as it was when the last call started
    db,         \* data block: the DataBlockBuilder's members
    dbAdded,    \* data block: the (key, value) pairs Add has accepted
    dbStatus,   \* data block: outcome of the last builder call
    dbGot,      \* data block: key and outcome of the last DataBlockReader::Get
    ib,         \* index block: the IndexBlockBuilder's members
    ibAdded,    \* index block: the (key, handle) pairs Add has accepted
    ibBlock,    \* index block: the bytes Finish returned (empty before)
    ibGot,      \* index block: key and outcome of the last IndexBlockReader::Find
    sstFile,    \* SSTable: the bytes of the file image written so far
    sstData,    \* SSTable: the (key, value) pairs of the data blocks in the file
    sstDone,    \* SSTable: index block and footer have been written
    sstGot,     \* SSTable: key and outcome of the last lookup through the footer
    fmtObj,     \* format: the BlockHandle or SSTableFooter that was encoded
    fmtDst,     \* format: dst before and after EncodeTo
    fmtIn,      \* format: the view handed to DecodeFrom
    fmtRes,     \* format: outcome of the last DecodeFrom call
    bf,         \* Bloom filter: the members of the filter being filled
    bfAdded,    \* Bloom filter: the keys that were passed to add
    bfWire,     \* Bloom filter: the bytes serialize returned (empty before)
    bfCopy,     \* Bloom filter: outcome of Deserialize on those bytes
    bfAsk,      \* Bloom filter: key and answers of the last might_contain
    sl,         \* skip list: the SkipList's members and the nodes it owns
    slMap,      \* skip list: the entries put in and not taken out since
    slOp,       \* skip list: the last call, its arguments and what it returned
    rdBlock,    \* stored block: kind and bytes of a block read back from a file
    rdGot,      \* stored block: key and outcome of the lookup in that block
    lv,         \* level chooser: a SkipList's configuration and its randomLevel()
    rj,         \* rejected Add: a builder, and its twin that is spared the
                \* calls the builder rejects
    fileObj,    \* the file object: implementation, kind and fd_
    fdisk,      \* the file behind the descriptor, as the system keeps it
    fmOp        \* the last call on the file object and what it returned

walVars == <<walIn, walLog, walTamper, walOut, walStatus, walPrev>>

blockVars == <<db, dbAdded, dbStatus, dbGot>>

indexVars == <<ib, ibAdded, ibBlock, ibGot>>

sstVars == <<sstFile, sstData, sstDone, sstGot>>

fmtVars == <<fmtObj, fmtDst, fmtIn, fmtRes>>

bloomVars == <<bf, bfAdded, bfWire, bfCopy, bfAsk>>

slVars == <<sl, slMap, slOp>>

readVars == <<rdBlock, rdGot>>

levelVars == <<lv>>

retryVars == <<rj>>
fileVars == <<fileObj, fdisk, fmOp>>

vars == <<walVars, blockVars, indexVars, sstVars, fmtVars, bloomVars, slVars, readVars, levelVars, retryVars, fileVars>>

\* ------------------------------------------------------------------------
\* Machine words
\* ------------------------------------------------------------------------

RECURSIVE ToWord(_, _)
\* static_cast<uintN_t>(n) for a non-negative integer n, as w bytes.
ToWord(n, w) ==
    IF w = 0 THEN <<>> ELSE <<n % 256>> \o ToWord(n \div 256, w - 1)

RECURSIVE WNum(_)
\* The value of a word, for words below 2^31.
WNum(a) ==
    IF a = <<>> THEN 0 ELSE a[1] + 256 * WNum(Tail(a))

\* Zero extension of a word to w bytes (integral promotion to a wider type).
RECURSIVE WExt(_, _)
WExt(a, w) ==
    IF Len(a) >= w THEN a ELSE WExt(a \o <<0>>, w)

RECURSIVE WAddC(_, _, _)
WAddC(a, b, c) ==
    IF a = <<>> THEN <<>>
    ELSE LET s == a[1] + b[1] + c
         IN  <<s % 256>> \o WAddC(Tail(a), Tail(b), s \div 256)

\* a + b in unsigned arithmetic of the words' width (wraps).
WAdd(a, b) ==
    WAddC(a, b, 0)

RECURSIVE WLt(_, _)
\* a < b for two words of the same width.
WLt(a, b) ==
    IF a = <<>> THEN FALSE
    ELSE LET n == Len(a)
         IN  IF a[n] # b[n] THEN a[n] < b[n]
             ELSE WLt(SubSeq(a, 1, n - 1), SubSeq(b, 1, n - 1))

RECURSIVE BitOp(_, _, _, _)
\* Bitwise combination of two n-bit numbers; op is "xor" or "or".
BitOp(op, a, b, n) ==
    IF n = 0 THEN 0
    ELSE (IF op = "xor" THEN (a + b) % 2
          ELSE IF a % 2 = 1 \/ b % 2 = 1 THEN 1 ELSE 0)
         + 2 * BitOp(op, a \div 2, b \div 2, n - 1)

RECURSIVE NibbleRow(_, _, _)
NibbleRow(op, a, b) ==
    IF b > 15 THEN <<>> ELSE <<BitOp(op, a, b, 4)>> \o NibbleRow(op, a, b + 1)

RECURSIVE NibbleTable(_, _)
NibbleTable(op, a) ==
    IF a > 15 THEN <<>> ELSE <<NibbleRow(op, a, 0)>> \o NibbleTable(op, a + 1)

\* XorNibble[a + 1][b + 1] = a ^ b for 4-bit a, b.
XorNibble ==
    NibbleTable("xor", 0)

OrNibble ==
    NibbleTable("or", 0)

XorByte(a, b) ==
    16 * XorNibble[(a \div 16) + 1][(b \div 16) + 1]
    + XorNibble[(a % 16) + 1][(b % 16) + 1]

OrByte(a, b) ==
    16 * OrNibble[(a \div 16) + 1][(b \div 16) + 1]
    + OrNibble[(a % 16) + 1][(b % 16) + 1]

RECURSIVE WXor(_, _)
\* a ^ b
WXor(a, b) ==
    IF a = <<>> THEN <<>>
    ELSE <<XorByte(a[1], b[1])>> \o WXor(Tail(a), Tail(b))

RECURSIVE WOr(_, _)
\* a | b
WOr(a, b) ==
    IF a = <<>> THEN <<>>
    ELSE <<OrByte(a[1], b[1])>> \o WOr(Tail(a), Tail(b))

RECURSIVE WShr1From(_, _)
WShr1From(a, i) ==
    IF i > Len(a) THEN <<>>
    ELSE <<(a[i] \div 2) + (IF i < Len(a) THEN 128 * (a[i + 1] % 2) ELSE 0)>>
         \o WShr1From(a, i + 1)

\* a >> 1
WShr1(a) ==
    WShr1From(a, 1)

\* Lexicographic order of byte strings (std::string operator<).
RECURSIVE StrLt(_, _)
StrLt(a, b) ==
    IF b = <<>> THEN FALSE
    ELSE IF a = <<>> THEN TRUE
    ELSE IF a[1] # b[1] THEN a[1] < b[1]
    ELSE StrLt(Tail(a), Tail(b))

StrLe(a, b) ==
    a = b \/ StrLt(a, b)

\* s.substr(pos) / s.remove_prefix(pos): the bytes after the first pos.
Drop(s, pos) ==
    SubSeq(s, pos + 1, Len(s))

\* s.substr(0, n): the first n bytes.
Take(s, n) ==
    SubSeq(s, 1, n)

\* ------------------------------------------------------------------------
\* WAL helpers (wal_format.h, namespace detail)
\* ------------------------------------------------------------------------

\* PutFixed32 / PutFixed64: memcpy of the integer's bytes.
PutFixed(dst, v) ==
    dst \o v

\* DecodeFixed32(p + off): the 4 bytes at offset off.
DecodeFixed32(p, off) ==
    SubSeq(p, off + 1, off + 4)

\* DecodeFixed64(p + off): the 8 bytes at offset off.
DecodeFixed64(p, off) ==
    SubSeq(p, off + 1, off + 8)

\* A length writer that leaves out the continuation bit.
VarintBytesNoFlag(v) ==
    IF v >= 128 THEN <<v % 128, v \div 128>> ELSE <<v>>

RECURSIVE VarintBytes(_)
VarintBytes(v) ==
    IF v >= 128 THEN <<(v % 128) + 128>> \o VarintBytes(v \div 128)
    ELSE <<v>>

\* PutVarint32(dst, v), v the size of a string of the model.
PutVarint32(dst, v) ==
    dst \o VarintBytes(v)

\* static_cast<uint32_t>(byte & 0x7F) << shift, shift in {0, 7, 14, 21, 28}:
\* the bits shifted past bit 31 are lost.
ShiftGroup(g, shift) ==
    CASE shift = 0  -> <<g, 0, 0, 0>>
      [] shift = 7  -> ToWord(g * 128, 4)
      [] shift = 14 -> ToWord(g * 16384, 4)
      [] shift = 21 -> ToWord(g * 2097152, 4)
      [] shift = 28 -> <<0, 0, 0, (g % 16) * 16>>

RECURSIVE GetVarint32Loop(_, _, _, _)
GetVarint32Loop(in, i, shift, result) ==
    IF i < Len(in) /\ shift <= 28
    THEN LET byte == in[i + 1]
             r2   == WOr(result, ShiftGroup(byte % 128, shift))
         IN  IF byte < 128
             THEN [ok |-> TRUE, out |-> r2, rest |-> Drop(in, i + 1)]
             ELSE GetVarint32Loop(in, i + 1, shift + 7, r2)
    ELSE [ok |-> FALSE, out |-> <<0, 0, 0, 0>>, rest |-> in]

\* A length reader that gives up after four bytes.
GetVarint32FourBytes(in) ==
    LET r == GetVarint32Loop(in, 0, 0, <<0, 0, 0, 0>>)
    IN  IF r.ok /\ Len(in) - Len(r.rest) = 5
        THEN [ok |-> FALSE, out |-> <<0, 0, 0, 0>>, rest |-> in]
        ELSE r

\* GetVarint32(in, out): ok, the decoded uint32_t, and the advanced view.
GetVarint32(in) ==
    GetVarint32Loop(in, 0, 0, <<0, 0, 0, 0>>)

\* 0xEDB88320
CrcPoly ==
    <<32, 131, 184, 237>>

RECURSIVE CrcTableEntry(_, _)
CrcTableEntry(c, k) ==
    IF k = 0 THEN c
    ELSE CrcTableEntry(IF c[1] % 2 = 1 THEN WXor(CrcPoly, WShr1(c))
                       ELSE WShr1(c), k - 1)

RECURSIVE CrcTableRange(_, _)
CrcTableRange(lo, hi) ==
    IF lo = hi THEN <<CrcTableEntry(ToWord(lo, 4), 8)>>
    ELSE LET mid == (lo + hi) \div 2
         IN  CrcTableRange(lo, mid) \o CrcTableRange(mid + 1, hi)

\* table[i] is CrcTable[i + 1].
CrcTable ==
    CrcTableRange(0, 255)

\* One iteration of the loop: c = table[(c ^ data[i]) & 0xFF] ^ (c >> 8).
CrcStep(c, byte) ==
    LET t == CrcTable[XorByte(c[1], byte) + 1]
    IN  <<XorByte(t[1], c[2]), XorByte(t[2], c[3]), XorByte(t[3], c[4]), t[4]>>

RECURSIVE CrcRange(_, _, _, _)
\* The loop over data[lo..hi] (1-based), started with c.  The range is split
\* in halves and the first half's result is computed before the second half
\* starts (the CASE guard), which keeps the evaluation shallow.
CrcRange(c, data, lo, hi) ==
    IF lo > hi THEN c
    ELSE IF lo = hi THEN CrcStep(c, data[lo])
    ELSE LET mid == (lo + hi) \div 2
             c2  == CrcRange(c, data, lo, mid)
         IN  CASE Len(c2) = 4 -> CrcRange(c2, data, mid + 1, hi)

\* Crc32(data, n) over the whole of data.
Crc32(data) ==
    WXor(CrcRange(<<255, 255, 255, 255>>, data, 1, Len(data)),
         <<255, 255, 255, 255>>)

\* ------------------------------------------------------------------------
\* WALRecord (wal_format.h)
\* ------------------------------------------------------------------------

\* A default-constructed WALRecord.
NoRecord ==
    [txn_id |-> <<0, 0, 0, 0, 0, 0, 0, 0>>, type |-> 0,
     key |-> <<>>, value |-> <<>>]

SerializePayload(r) ==
    LET o1 == PutFixed(<<>>, r.txn_id)
        o2 == Append(o1, r.type)
        o3 == PutVarint32(o2, Len(r.key))
        o4 == PutVarint32(o3, Len(r.value))
    IN  (o4 \o r.key) \o r.value

SerializeFrame(r) ==
    LET payload == SerializePayload(r)
        o1      == PutFixed(<<>>, ToWord(Len(payload), 4))
        crc     == Crc32(payload)
        o2      == PutFixed(o1, crc)
    IN  o2 \o payload

\* ParsePayload: the outcome ("ok" or the exception's message) and the record.
ParsePayload(payload) ==
    IF Len(payload) < 9
    THEN [status |-> "WAL: payload too small", rec |-> NoRecord]
    ELSE
    LET txn  == DecodeFixed64(payload, 0)
        type == payload[9]
        p1   == Drop(payload, 9)
        kl   == GetVarint32(p1)
        vl   == GetVarint32(kl.rest)
        p3   == vl.rest
    IN  IF ~kl.ok
        THEN [status |-> "WAL: bad key length", rec |-> NoRecord]
        ELSE IF ~vl.ok
        THEN [status |-> "WAL: bad value length", rec |-> NoRecord]
        ELSE IF WLt(ToWord(Len(p3), 8), WAdd(WExt(kl.out, 8), WExt(vl.out, 8)))
        THEN [status |-> "WAL: truncated kv", rec |-> NoRecord]
        ELSE LET klen == WNum(kl.out)
                 vlen == WNum(vl.out)
             IN  [status |-> "ok",
                  rec |-> [txn_id |-> txn, type |-> type,
                           key |-> Take(p3, klen),
                           value |-> Take(Drop(p3, klen), vlen)]]

\* A frame reader that does not compare the CRC.
ParseFrameNoCrc(in) ==
    IF Len(in) < 8
    THEN [status |-> "WAL: truncated header", rec |-> NoRecord, in |-> in]
    ELSE
    LET len == DecodeFixed32(in, 0)
        in1 == Drop(in, 8)
    IN  IF WLt(ToWord(Len(in1), 4), len)
        THEN [status |-> "WAL: truncated payload", rec |-> NoRecord, in |-> in1]
        ELSE LET r == ParsePayload(Take(in1, WNum(len)))
             IN  IF r.status # "ok"
                 THEN [status |-> r.status, rec |-> NoRecord, in |-> in1]
                 ELSE [status |-> "ok", rec |-> r.rec,
                       in |-> Drop(in1, WNum(len))]

\* ParseFrame(in): the outcome, the record returned, and the view `in` as the
\* call leaves it (the header is removed before the later checks throw).
ParseFrame(in) ==
    IF Len(in) < 8
    THEN [status |-> "WAL: truncated header", rec |-> NoRecord, in |-> in]
    ELSE
    LET len == DecodeFixed32(in, 0)
        crc == DecodeFixed32(in, 4)
        in1 == Drop(in, 8)
    IN  IF WLt(ToWord(Len(in1), 4), len)
        THEN [status |-> "WAL: truncated payload", rec |-> NoRecord, in |-> in1]
        ELSE
        LET payload == Take(in1, WNum(len))
            got     == Crc32(payload)
        IN  IF got # crc
            THEN [status |-> "WAL: CRC mismatch", rec |-> NoRecord, in |-> in1]
            ELSE LET r == ParsePayload(payload)
                 IN  IF r.status # "ok"
                     THEN [status |-> r.status, rec |-> NoRecord, in |-> in1]
                     ELSE [status |-> "ok", rec |-> r.rec,
                           in |-> Drop(in1, WNum(len))]

\* ------------------------------------------------------------------------
\* WAL: the stream written by a writer, damaged or not, parsed by a reader
\* ------------------------------------------------------------------------

MaxWalRecords == 2

MaxTear == 12

LongKeyLen == 128

RECURSIVE Rep(_, _)
\* std::string(n, b)
Rep(b, n) ==
    IF n = 0 THEN <<>>
    ELSE IF n = 1 THEN <<b>>
    ELSE Rep(b, n \div 2) \o Rep(b, n - (n \div 2))

\* A key long enough for a two-byte varint length.
LongKey ==
    Rep(97, LongKeyLen)

WalRecords ==
    { [txn_id |-> ToWord(1, 8), type |-> 0, key |-> <<>>, value |-> <<>>],
      [txn_id |-> ToWord(1, 8), type |-> 1, key |-> <<97>>, value |-> <<120>>],
      [txn_id |-> ToWord(1, 8), type |-> 2, key |-> <<97, 98>>, value |-> <<>>],
      [txn_id |-> <<255, 255, 255, 255, 255, 255, 255, 255>>, type |-> 3,
       key |-> <<>>, value |-> <<>>],
      [txn_id |-> <<8, 7, 6, 5, 4, 3, 2, 1>>, type |-> 4,
       key |-> <<>>, value |-> <<>>],
      [txn_id |-> ToWord(2, 8), type |-> 1, key |-> LongKey,
       value |-> <<120, 121>>],
      [txn_id |-> ToWord(2, 8), type |-> 0, key |-> <<98>>, value |-> <<121>>],
      [txn_id |-> ToWord(2, 8), type |-> 1, key |-> <<>>, value |-> <<120>>] }

\* A frame around arbitrary payload bytes, with a matching length and CRC,
\* as a foreign or faulty writer could produce it.
CraftFrame(p) ==
    (ToWord(Len(p), 4) \o Crc32(p)) \o p

CraftTxn ==
    <<1, 2, 3, 4, 5, 6, 7, 8>>

CraftedPayloads ==
    { <<>>,
      CraftTxn,
      CraftTxn \o <<1>>,
      CraftTxn \o <<1, 0>>,
      CraftTxn \o <<1, 128>>,
      CraftTxn \o <<1, 0, 1>>,
      CraftTxn \o <<9, 0, 0>>,
      CraftTxn \o <<1, 129, 0, 0>>,
      CraftTxn \o <<1, 2, 0, 97>>,
      CraftTxn \o <<1, 1, 1, 97>>,
      CraftTxn \o <<1, 1, 1, 97, 98, 99>>,
      CraftTxn \o <<1, 128, 128, 128, 128, 128, 0>>,
      CraftTxn \o <<1, 0, 255, 255, 255, 255, 255, 0>>,
      CraftTxn \o <<1, 255, 255, 255, 255, 15, 1, 97>>,
      CraftTxn \o <<1, 1, 255, 255, 255, 255, 15, 97>>,
      CraftTxn \o <<1, 255, 255, 255, 255, 127, 0>>,
      CraftTxn \o <<1, 128, 128, 128, 128, 16, 0>> }

CraftedInputs ==
    { CraftFrame(p) : p \in CraftedPayloads }
    \cup { CraftFrame(CraftTxn \o <<9, 0, 0>>) \o <<7>>,
           <<1, 2, 3>>,
           <<0, 0, 0, 0, 0, 0, 0>>,
           <<0, 0, 0, 0, 0, 0, 0, 0>>,
           <<0, 0, 0, 0, 1, 0, 0, 0>>,
           <<1, 0, 0, 0, 0, 0, 0, 0, 5>>,
           <<255, 255, 255, 255, 0, 0, 0, 0, 1>>,
           <<0, 0, 0, 128, 0, 0, 0, 0, 1>>,
           <<0, 0, 1, 0, 0, 0, 0, 0, 1>> }

WalInit ==
    /\ walIn = <<>>
    /\ walLog = <<>>
    /\ walTamper = "none"
    /\ walOut = <<>>
    /\ walStatus = "none"
    /\ walPrev = <<>>

\* buf += r.SerializeFrame()
WalAppend(r) ==
    /\ walStatus = "none"
    /\ walTamper = "none"
    /\ Len(walLog) < MaxWalRecords
    /\ walIn' = walIn \o SerializeFrame(r)
    /\ walLog' = Append(walLog, r)
    /\ UNCHANGED <<walTamper, walOut, walStatus, walPrev>>
    /\ UNCHANGED <<blockVars, indexVars, sstVars, fmtVars, bloomVars, slVars, readVars, levelVars, retryVars, fileVars>>

\* One bit of the payload region of a single written frame flips
\* (bit `bit` of the byte at 0-based index pos - 1, pos - 1 >= 8).
WalFlipBit(pos, bit) ==
    /\ walStatus = "none"
    /\ walTamper = "none"
    /\ Len(walLog) = 1
    /\ pos \in 9..Len(walIn)
    /\ walIn' = [walIn EXCEPT ![pos] = XorByte(@, 2 ^ bit)]
    /\ walTamper' = "flip"
    /\ UNCHANGED <<walLog, walOut, walStatus, walPrev>>
    /\ UNCHANGED <<blockVars, indexVars, sstVars, fmtVars, bloomVars, slVars, readVars, levelVars, retryVars, fileVars>>

\* The last n bytes of the stream are lost (a torn write).
WalTear(n) ==
    /\ walStatus = "none"
    /\ walTamper = "none"
    /\ n <= Len(walIn)
    /\ walIn' = Take(walIn, Len(walIn) - n)
    /\ walTamper' = "tear"
    /\ UNCHANGED <<walLog, walOut, walStatus, walPrev>>
    /\ UNCHANGED <<blockVars, indexVars, sstVars, fmtVars, bloomVars, slVars, readVars, levelVars, retryVars, fileVars>>

\* The reader is handed bytes that no SerializeFrame call produced.
WalCraft(x) ==
    /\ walStatus = "none"
    /\ walTamper = "none"
    /\ walLog = <<>>
    /\ walIn' = x
    /\ walTamper' = "craft"
    /\ UNCHANGED <<walLog, walOut, walStatus, walPrev>>
    /\ UNCHANGED <<blockVars, indexVars, sstVars, fmtVars, bloomVars, slVars, readVars, levelVars, retryVars, fileVars>>

\* WALRecord::ParseFrame(in); a caller stops at the first exception.
WalParseFrame ==
    /\ walStatus \in {"none", "ok"}
    /\ LET res == ParseFrame(walIn)
       IN  /\ walIn' = res.in
           /\ walStatus' = res.status
           /\ walOut' = IF res.status = "ok" THEN Append(walOut, res.rec)
                        ELSE walOut
    /\ walPrev' = walIn
    /\ UNCHANGED <<walLog, walTamper>>
    /\ UNCHANGED <<blockVars, indexVars, sstVars, fmtVars, bloomVars, slVars, readVars, levelVars, retryVars, fileVars>>

WalNext ==
    \/ \E r \in WalRecords : WalAppend(r)
    \/ \E pos \in 9..Len(walIn), bit \in 0..7 : WalFlipBit(pos, bit)
    \/ \E n \in 1..MaxTear : WalTear(n)
    \/ \E x \in CraftedInputs : WalCraft(x)
    \/ WalParseFrame


\* ------------------------------------------------------------------------
\* WAL properties
\* ------------------------------------------------------------------------

\* The size of the frame at the front of a view: 8 + the stored len.
FrameSize(in) ==
    8 + WNum(DecodeFixed32(in, 0))

\* C1: on an undamaged stream SerializeFrame(r_0) ... SerializeFrame(r_{n-1})
\* the successive ParseFrame calls return r_0, r_1, ... in that order, field
\* by field; each successful call removes exactly 8 + len bytes, the size of
\* that record's frame; the view is empty once n records are returned; and
\* no call fails before that (the only failure is the truncated header
\* of the call after the n-th, on the empty view).
C1_RoundTrip ==
    walTamper = "none" =>
        /\ Len(walOut) <= Len(walLog)
        /\ walOut = SubSeq(walLog, 1, Len(walOut))
        /\ walStatus = "ok" =>
              /\ Len(walOut) >= 1
              /\ Len(walPrev) - Len(walIn) = FrameSize(walPrev)
              /\ walIn = Drop(walPrev, FrameSize(walPrev))
              /\ FrameSize(walPrev) = Len(SerializeFrame(walOut[Len(walOut)]))
        /\ (walStatus = "ok" /\ Len(walOut) = Len(walLog)) => walIn = <<>>
        /\ walStatus \notin {"none", "ok"} =>
              /\ walStatus = "WAL: truncated header"
              /\ walPrev = <<>>
              /\ walOut = walLog

\* Two different records, one of them with a two-byte key length, have been
\* written, and both have been read back, leaving nothing.
C1_Witness ==
    /\ walTamper = "none"
    /\ walStatus = "ok"
    /\ Len(walLog) = 2
    /\ walOut = walLog
    /\ walLog[1] # walLog[2]
    /\ walLog[2].key = LongKey
    /\ walIn = <<>>

\* C2: when one bit of the payload region of a frame written by
\* SerializeFrame has flipped, ParseFrame on it fails with the CRC mismatch
\* error: it neither returns a record nor reports a payload-structure error.
C2_BitFlipIsCrcMismatch ==
    (walTamper = "flip" /\ walStatus # "none") =>
        /\ walStatus = "WAL: CRC mismatch"
        /\ walOut = <<>>

\* The flipped bit is in the key_len byte of a PUT frame (payload offset 9),
\* where a reader without the CRC would go on to misread the lengths.
C2_Witness ==
    /\ walTamper = "flip"
    /\ walStatus = "WAL: CRC mismatch"
    /\ walLog[1].type = 1
    /\ walPrev[18] # SerializeFrame(walLog[1])[18]

\* The position (1-based) of the byte that ends the varint at the front of s:
\* the first byte below 128 among the first five; 0 when there is none.
VarintEnd(s) ==
    LET ends == {j \in 1..(IF Len(s) < 5 THEN Len(s) ELSE 5) : s[j] < 128}
    IN  IF ends = {} THEN 0 ELSE CHOOSE j \in ends : \A i \in ends : j <= i

RECURSIVE VarintLow(_, _)
\* Bits 0..27 of the varint s[1..e]: its first four 7-bit groups.
VarintLow(s, e) ==
    IF e = 0 THEN 0
    ELSE IF e > 4 THEN VarintLow(s, 4)
    ELSE (s[e] % 128) * (128 ^ (e - 1)) + VarintLow(s, e - 1)

\* Bits 28..31 of the varint s[1..e]: the low four bits of a fifth byte.
VarintHigh(s, e) ==
    IF e = 5 THEN s[5] % 16 ELSE 0

\* The outcome the ordered list of checks assigns to an input.
Classify(in) ==
    IF Len(in) < 8 THEN "truncated header"
    ELSE
    LET len == in[1] + 256 * in[2]
    IN  IF in[3] # 0 \/ in[4] # 0 \/ len > Len(in) - 8
        THEN "truncated payload"
        ELSE
        LET payload == SubSeq(in, 9, 8 + len)
        IN  IF Crc32(payload) # SubSeq(in, 5, 8) THEN "CRC mismatch"
            ELSE IF len < 9 THEN "payload too small"
            ELSE
            LET a  == SubSeq(payload, 10, len)
                ke == VarintEnd(a)
                b  == SubSeq(a, ke + 1, Len(a))
                ve == VarintEnd(b)
            IN  IF ke = 0 \/ ve = 0 THEN "bad length"
                ELSE IF \/ VarintHigh(a, ke) > 0
                        \/ VarintHigh(b, ve) > 0
                        \/ VarintLow(a, ke) + VarintLow(b, ve) > Len(b) - ve
                THEN "truncated kv"
                ELSE "ok"

\* The error of an exception message.
StatusClass(st) ==
    CASE st = "WAL: truncated header"  -> "truncated header"
      [] st = "WAL: truncated payload" -> "truncated payload"
      [] st = "WAL: CRC mismatch"      -> "CRC mismatch"
      [] st = "WAL: payload too small" -> "payload too small"
      [] st = "WAL: bad key length"    -> "bad length"
      [] st = "WAL: bad value length"  -> "bad length"
      [] st = "WAL: truncated kv"      -> "truncated kv"
      [] st = "ok"                     -> "ok"

\* C3: the outcome of every ParseFrame call, on written, torn, bit-flipped
\* and foreign inputs alike, is the one given by the first failing check in
\* the order truncated header (fewer than 8 bytes), truncated payload (fewer
\* than len bytes after the header), CRC mismatch, payload too small
\* (len < 9), bad length (a key_len or value_len varint that does not end
\* within five bytes of the payload), truncated kv (key_len + value_len
\* exceeds what is left of the payload), and success otherwise; a record is
\* returned only by a call whose frame's stored CRC matches its payload.
C3_CheckOrder ==
    walStatus # "none" =>
        /\ StatusClass(walStatus) = Classify(walPrev)
        /\ walStatus = "ok" =>
              Crc32(SubSeq(walPrev, 9, FrameSize(walPrev)))
                  = DecodeFixed32(walPrev, 4)

\* A foreign frame with a valid CRC whose key_len is a five-byte varint
\* of value 2^32 - 1 got past every check but the last.
C3_Witness ==
    /\ walTamper = "craft"
    /\ walStatus = "WAL: truncated kv"
    /\ Len(walPrev) >= 22
    /\ SubSeq(walPrev, 18, 22) = <<255, 255, 255, 255, 15>>

\* ------------------------------------------------------------------------
\* DataBlockBuilder (sstable_builder.cpp)
\* ------------------------------------------------------------------------

\* DataBlockBuilder(restart_interval): the members after construction.
DataBlockBuilder(restart_interval) ==
    [restart_interval_ |-> restart_interval, counter_ |-> 0,
     finished_ |-> FALSE, buffer_ |-> <<>>, restarts_ |-> <<0>>,
     last_key_ |-> <<>>]

RECURSIVE SharedPrefix(_, _)
SharedPrefix(a, b) ==
    IF a # <<>> /\ b # <<>> /\ a[1] = b[1]
    THEN 1 + SharedPrefix(Tail(a), Tail(b))
    ELSE 0

\* PutFixed32(dst, v) for a v that is a size or offset of the model.
PutFixed32(dst, v) ==
    PutFixed(dst, ToWord(v, 4))

RECURSIVE PutOffsets(_, _)
\* for (uint32_t off : offs) PutFixed32(dst, off);
PutOffsets(dst, offs) ==
    IF offs = <<>> THEN dst
    ELSE PutOffsets(PutFixed32(dst, offs[1]), Tail(offs))

\* An Add that keeps sharing the previous key's prefix in the entry that
\* starts a new run.
DataBlockBuilderAddSharing(b, key, value) ==
    IF b.finished_
    THEN [status |-> "DataBlockBuilder: already finished", b |-> b]
    ELSE IF b.last_key_ # <<>> /\ ~StrLt(b.last_key_, key)
    THEN [status |-> "DataBlockBuilder: keys must be strictly increasing",
          b |-> b]
    ELSE
    LET inRun     == b.counter_ < b.restart_interval_
        shared    == SharedPrefix(b.last_key_, key)
        restarts2 == IF inRun THEN b.restarts_
                     ELSE Append(b.restarts_, Len(b.buffer_))
        counter2  == IF inRun THEN b.counter_ ELSE 0
        o1        == PutFixed32(b.buffer_, shared)
        o2        == PutFixed32(o1, Len(key) - shared)
        o3        == PutFixed32(o2, Len(value))
    IN  [status |-> "ok",
         b |-> [b EXCEPT !.buffer_ = (o3 \o Drop(key, shared)) \o value,
                         !.restarts_ = restarts2,
                         !.last_key_ = key,
                         !.counter_ = counter2 + 1]]

\* An Add that remembers the key it rejects as out of order.
DataBlockBuilderAddRemembering(b, key, value) ==
    IF b.finished_
    THEN [status |-> "DataBlockBuilder: already finished", b |-> b]
    ELSE IF b.last_key_ # <<>> /\ ~StrLt(b.last_key_, key)
    THEN [status |-> "DataBlockBuilder: keys must be strictly increasing",
          b |-> [b EXCEPT !.last_key_ = key]]
    ELSE
    LET inRun     == b.counter_ < b.restart_interval_
        shared    == IF inRun THEN SharedPrefix(b.last_key_, key) ELSE 0
        restarts2 == IF inRun THEN b.restarts_
                     ELSE Append(b.restarts_, Len(b.buffer_))
        counter2  == IF inRun THEN b.counter_ ELSE 0
        o1        == PutFixed32(b.buffer_, shared)
        o2        == PutFixed32(o1, Len(key) - shared)
        o3        == PutFixed32(o2, Len(value))
    IN  [status |-> "ok",
         b |-> [b EXCEPT !.buffer_ = (o3 \o Drop(key, shared)) \o value,
                         !.restarts_ = restarts2,
                         !.last_key_ = key,
                         !.counter_ = counter2 + 1]]

\* An Add that starts a new run one entry late.
DataBlockBuilderAddLate(b, key, value) ==
    IF b.finished_
    THEN [status |-> "DataBlockBuilder: already finished", b |-> b]
    ELSE IF b.last_key_ # <<>> /\ ~StrLt(b.last_key_, key)
    THEN [status |-> "DataBlockBuilder: keys must be strictly increasing",
          b |-> b]
    ELSE
    LET inRun     == b.counter_ <= b.restart_interval_
        shared    == IF inRun THEN SharedPrefix(b.last_key_, key) ELSE 0
        restarts2 == IF inRun THEN b.restarts_
                     ELSE Append(b.restarts_, Len(b.buffer_))
        counter2  == IF inRun THEN b.counter_ ELSE 0
        o1        == PutFixed32(b.buffer_, shared)
        o2        == PutFixed32(o1, Len(key) - shared)
        o3        == PutFixed32(o2, Len(value))
    IN  [status |-> "ok",
         b |-> [b EXCEPT !.buffer_ = (o3 \o Drop(key, shared)) \o value,
                         !.restarts_ = restarts2,
                         !.last_key_ = key,
                         !.counter_ = counter2 + 1]]

\* DataBlockBuilder::Add(key, value): the outcome ("ok" or the exception's
\* message) and the members afterwards.
DataBlockBuilderAdd(b, key, value) ==
    IF b.finished_
    THEN [status |-> "DataBlockBuilder: already finished", b |-> b]
    ELSE IF b.last_key_ # <<>> /\ ~StrLt(b.last_key_, key)
    THEN [status |-> "DataBlockBuilder: keys must be strictly increasing",
          b |-> b]
    ELSE
    LET inRun     == b.counter_ < b.restart_interval_
        shared    == IF inRun THEN SharedPrefix(b.last_key_, key) ELSE 0
        restarts2 == IF inRun THEN b.restarts_
                     ELSE Append(b.restarts_, Len(b.buffer_))
        counter2  == IF inRun THEN b.counter_ ELSE 0
        o1        == PutFixed32(b.buffer_, shared)
        o2        == PutFixed32(o1, Len(key) - shared)
        o3        == PutFixed32(o2, Len(value))
    IN  [status |-> "ok",
         b |-> [b EXCEPT !.buffer_ = (o3 \o Drop(key, shared)) \o value,
                         !.restarts_ = restarts2,
                         !.last_key_ = key,
                         !.counter_ = counter2 + 1]]

\* A size that leaves out the four bytes of the restart count.
DataBlockBuilderCurrentSizeNoCount(b) ==
    Len(b.buffer_) + Len(b.restarts_) * 4

\* DataBlockBuilder::CurrentSize()
DataBlockBuilderCurrentSize(b) ==
    Len(b.buffer_) + (Len(b.restarts_) + 1) * 4

\* A Finish that appends the trailer on every call.
DataBlockBuilderFinishAppending(b) ==
    [b EXCEPT !.buffer_ = PutFixed32(PutOffsets(b.buffer_, b.restarts_),
                                     Len(b.restarts_)),
              !.finished_ = TRUE]

\* DataBlockBuilder::Finish(): the members afterwards; buffer_ is returned.
DataBlockBuilderFinish(b) ==
    IF b.finished_ THEN b
    ELSE [b EXCEPT !.buffer_ = PutFixed32(PutOffsets(b.buffer_, b.restarts_),
                                          Len(b.restarts_)),
                   !.finished_ = TRUE]

\* ------------------------------------------------------------------------
\* DataBlockReader (sstable_builder.cpp)
\* ------------------------------------------------------------------------

RECURSIVE ReadOffsets(_, _, _)
\* The n uint32_t values stored from offset p on.
ReadOffsets(block, p, n) ==
    IF n = 0 THEN <<>>
    ELSE <<DecodeFixed32(block, p)>> \o ReadOffsets(block, p + 4, n - 1)

\* A reader that leaves the restart table in the entries region.
DataBlockReaderWithTable(block) ==
    IF Len(block) < 4
    THEN [status |-> "DataBlockReader: block too small",
          restarts_ |-> <<>>, entries_ |-> <<>>]
    ELSE
    LET num_restarts == DecodeFixed32(block, Len(block) - 4)
    IN  IF WLt(ToWord(Len(block) \div 4, 4), num_restarts)
        THEN [status |-> "DataBlockReader: corrupt",
              restarts_ |-> <<>>, entries_ |-> <<>>]
        ELSE
        LET rest_bytes == WNum(num_restarts) * 4
        IN  IF Len(block) < 4 + rest_bytes
            THEN [status |-> "DataBlockReader: corrupt",
                  restarts_ |-> <<>>, entries_ |-> <<>>]
            ELSE [status |-> "ok",
                  restarts_ |-> ReadOffsets(block, Len(block) - 4 - rest_bytes,
                                            WNum(num_restarts)),
                  entries_ |-> Take(block, Len(block) - 4)]

\* DataBlockReader(block): the outcome and the members restarts_ (uint32_t
\* words) and entries_.
DataBlockReader(block) ==
    IF Len(block) < 4
    THEN [status |-> "DataBlockReader: block too small",
          restarts_ |-> <<>>, entries_ |-> <<>>]
    ELSE
    LET num_restarts == DecodeFixed32(block, Len(block) - 4)
    IN  IF WLt(ToWord(Len(block) \div 4, 4), num_restarts)
        THEN [status |-> "DataBlockReader: corrupt",
              restarts_ |-> <<>>, entries_ |-> <<>>]
        ELSE
        LET rest_bytes == WNum(num_restarts) * 4
        IN  IF Len(block) < 4 + rest_bytes
            THEN [status |-> "DataBlockReader: corrupt",
                  restarts_ |-> <<>>, entries_ |-> <<>>]
            ELSE [status |-> "ok",
                  restarts_ |-> ReadOffsets(block, Len(block) - 4 - rest_bytes,
                                            WNum(num_restarts)),
                  entries_ |-> Take(block, Len(block) - 4 - rest_bytes)]

\* The outcomes of a Get or Find call: found or not, the bytes delivered, and
\* ub when the call read outside the block.
Lookup(found, value) ==
    [found |-> found, value |-> value, ub |-> FALSE]

LookupUb ==
    [found |-> FALSE, value |-> <<>>, ub |-> TRUE]

\* The key_at_offset lambda of Get: ok, the full key, and ub for a read
\* outside entries_ (off + 12 wrapped around in uint32_t).
KeyAtOffset(entries, off) ==
    LET end12 == WAdd(off, ToWord(12, 4))
        size  == ToWord(Len(entries), 8)
    IN  IF WLt(size, WExt(end12, 8))
        THEN [ok |-> FALSE, ub |-> FALSE, key |-> <<>>]
        ELSE IF WLt(end12, off)
        THEN [ok |-> FALSE, ub |-> TRUE, key |-> <<>>]
        ELSE
        LET q         == WNum(off)
            shared    == DecodeFixed32(entries, q)
            nonshared == DecodeFixed32(entries, q + 4)
            vlen      == DecodeFixed32(entries, q + 8)
            need      == WAdd(WAdd(ToWord(12, 8), WExt(nonshared, 8)),
                              WExt(vlen, 8))
        IN  IF shared # <<0, 0, 0, 0>>
            THEN [ok |-> FALSE, ub |-> FALSE, key |-> <<>>]
            ELSE IF WLt(size, WAdd(WExt(off, 8), need))
            THEN [ok |-> FALSE, ub |-> FALSE, key |-> <<>>]
            ELSE [ok |-> TRUE, ub |-> FALSE,
                  key |-> SubSeq(entries, q + 13, q + 12 + WNum(nonshared))]

RECURSIVE RestartSearch(_, _, _, _)
\* Phase 1 of Get: the binary search over the restart keys.
RestartSearch(r, key, lo, hi) ==
    IF lo < hi
    THEN LET mid == (lo + hi + 1) \div 2
             k   == KeyAtOffset(r.entries_, r.restarts_[mid + 1])
         IN  IF ~k.ok THEN [ok |-> FALSE, ub |-> k.ub, lo |-> lo]
             ELSE IF StrLe(k.key, key)
             THEN RestartSearch(r, key, mid, hi)
             ELSE RestartSearch(r, key, lo, mid - 1)
    ELSE [ok |-> TRUE, ub |-> FALSE, lo |-> lo]

RECURSIVE ScanRun(_, _, _, _, _)
\* Phase 2 of Get: the scan of run lo from offset off on.
ScanRun(r, key, lo, off, prev_key) ==
    LET size  == ToWord(Len(r.entries_), 8)
        end12 == WAdd(off, ToWord(12, 4))
    IN  IF ~WLt(WExt(off, 8), size) THEN Lookup(FALSE, <<>>)
        ELSE IF lo + 1 < Len(r.restarts_) /\ ~WLt(off, r.restarts_[lo + 2])
        THEN Lookup(FALSE, <<>>)
        ELSE IF WLt(size, WExt(end12, 8)) THEN Lookup(FALSE, <<>>)
        ELSE IF WLt(end12, off) THEN LookupUb
        ELSE
        LET p         == WNum(off)
            shared    == DecodeFixed32(r.entries_, p)
            nonshared == DecodeFixed32(r.entries_, p + 4)
            vlen      == DecodeFixed32(r.entries_, p + 8)
            need      == WAdd(WAdd(ToWord(12, 8), WExt(nonshared, 8)),
                              WExt(vlen, 8))
        IN  IF WLt(size, WAdd(WExt(off, 8), need)) THEN Lookup(FALSE, <<>>)
            ELSE IF shared # <<0, 0, 0, 0>>
                    /\ WLt(ToWord(Len(prev_key), 4), shared)
            THEN Lookup(FALSE, <<>>)
            ELSE
            LET delta   == SubSeq(r.entries_, p + 13, p + 12 + WNum(nonshared))
                cur_key == IF shared = <<0, 0, 0, 0>> THEN delta
                           ELSE Take(prev_key, WNum(shared)) \o delta
            IN  IF cur_key = key
                THEN Lookup(TRUE, SubSeq(r.entries_, p + 13 + WNum(nonshared),
                                 p + 12 + WNum(nonshared) + WNum(vlen)))
                ELSE IF StrLt(key, cur_key) THEN Lookup(FALSE, <<>>)
                ELSE ScanRun(r, key, lo, WAdd(off, Take(need, 4)), cur_key)

\* DataBlockReader::Get(key, value_out).
DataBlockReaderGet(r, key) ==
    IF r.restarts_ = <<>> THEN Lookup(FALSE, <<>>)
    ELSE LET s == RestartSearch(r, key, 0, Len(r.restarts_) - 1)
         IN  IF ~s.ok THEN (IF s.ub THEN LookupUb ELSE Lookup(FALSE, <<>>))
             ELSE ScanRun(r, key, s.lo, r.restarts_[s.lo + 1], <<>>)

\* ------------------------------------------------------------------------
\* BlockHandle, SSTableFooter (sstable_format.h)
\* ------------------------------------------------------------------------

\* A default-constructed BlockHandle: offset and size are uint64_t words.
NoHandle ==
    [offset |-> <<0, 0, 0, 0, 0, 0, 0, 0>>, size |-> <<0, 0, 0, 0, 0, 0, 0, 0>>]

\* 0xF00DBAADF00DBAAD
kMagic ==
    <<173, 186, 13, 240, 173, 186, 13, 240>>

\* A default-constructed SSTableFooter.
NoFooter ==
    [filter_handle |-> NoHandle, index_handle |-> NoHandle, magic |-> kMagic]

\* An encoder that writes the size before the offset.
BlockHandleEncodeToSwapped(h, dst) ==
    dst \o (h.size \o h.offset)

\* BlockHandle::EncodeTo(dst)
BlockHandleEncodeTo(h, dst) ==
    dst \o (h.offset \o h.size)

\* BlockHandle::DecodeFrom(in): the outcome, the handle, and the view after.
BlockHandleDecodeFrom(in) ==
    IF Len(in) < 16
    THEN [status |-> "BlockHandle: truncated buffer", h |-> NoHandle,
          in |-> in]
    ELSE [status |-> "ok",
          h |-> [offset |-> DecodeFixed64(in, 0), size |-> DecodeFixed64(in, 8)],
          in |-> Drop(in, 16)]

\* SSTableFooter::EncodeTo(dst)
SSTableFooterEncodeTo(f, dst) ==
    LET d1 == BlockHandleEncodeTo(f.filter_handle, dst)
        d2 == BlockHandleEncodeTo(f.index_handle, d1)
    IN  d2 \o f.magic

\* SSTableFooter::DecodeFrom(in): the outcome, the footer, and the view after.
SSTableFooterDecodeFrom(in) ==
    IF Len(in) < 40
    THEN [status |-> "SSTableFooter: truncated buffer", f |-> NoFooter,
          in |-> in]
    ELSE
    LET tmp == Take(in, 40)
        r1  == BlockHandleDecodeFrom(tmp)
        r2  == BlockHandleDecodeFrom(r1.in)
    IN  IF r1.status # "ok"
        THEN [status |-> r1.status, f |-> NoFooter, in |-> in]
        ELSE IF r2.status # "ok"
        THEN [status |-> r2.status, f |-> NoFooter, in |-> in]
        ELSE IF Len(r2.in) < 8
        THEN [status |-> "SSTableFooter: missing magic", f |-> NoFooter,
              in |-> in]
        ELSE [status |-> "ok",
              f |-> [filter_handle |-> r1.h, index_handle |-> r2.h,
                     magic |-> DecodeFixed64(r2.in, 0)],
              in |-> Drop(in, 40)]

\* ------------------------------------------------------------------------
\* IndexBlockBuilder, IndexBlockReader (sstable_builder.cpp)
\* ------------------------------------------------------------------------

\* The members of a new IndexBlockBuilder.
IndexBlockBuilder ==
    [buffer_ |-> <<>>, offsets_ |-> <<>>, last_key_ |-> <<>>]

\* An Add that notes the entry's offset after writing the key.
IndexBlockBuilderAddLateOffset(b, divider_key, handle) ==
    IF b.last_key_ # <<>> /\ ~StrLt(b.last_key_, divider_key)
    THEN [status |-> "IndexBlockBuilder: keys must be strictly increasing",
          b |-> b]
    ELSE
    LET o1 == PutVarint32(b.buffer_, Len(divider_key))
        o2 == o1 \o divider_key
    IN  [status |-> "ok",
         b |-> [buffer_ |-> BlockHandleEncodeTo(handle, o2),
                offsets_ |-> Append(b.offsets_, Len(o2)),
                last_key_ |-> divider_key]]

\* IndexBlockBuilder::Add(divider_key, handle): the outcome and the members.
IndexBlockBuilderAdd(b, divider_key, handle) ==
    IF b.last_key_ # <<>> /\ ~StrLt(b.last_key_, divider_key)
    THEN [status |-> "IndexBlockBuilder: keys must be strictly increasing",
          b |-> b]
    ELSE
    LET o1 == PutVarint32(b.buffer_, Len(divider_key))
        o2 == o1 \o divider_key
    IN  [status |-> "ok",
         b |-> [buffer_ |-> BlockHandleEncodeTo(handle, o2),
                offsets_ |-> Append(b.offsets_, Len(b.buffer_)),
                last_key_ |-> divider_key]]

\* IndexBlockBuilder::Finish(): the members afterwards; buffer_ is returned.
IndexBlockBuilderFinish(b) ==
    [b EXCEPT !.buffer_ = PutFixed32(PutOffsets(b.buffer_, b.offsets_),
                                     Len(b.offsets_))]

RECURSIVE OffsetsValid(_, _, _)
\* The constructor's loop over the offsets from the i-th (1-based) on:
\* non-decreasing, and not beyond the entries region of `limit` bytes.
OffsetsValid(offs, i, limit) ==
    IF i > Len(offs) THEN TRUE
    ELSE /\ ~(i > 1 /\ WLt(offs[i], offs[i - 1]))
         /\ ~WLt(ToWord(limit, 8), WExt(offs[i], 8))
         /\ OffsetsValid(offs, i + 1, limit)

\* IndexBlockReader(block): the outcome and the members.
IndexBlockReader(block) ==
    IF Len(block) < 4
    THEN [status |-> "IndexBlockReader: block too small",
          offsets_ |-> <<>>, entries_ |-> <<>>]
    ELSE
    LET num == DecodeFixed32(block, Len(block) - 4)
    IN  IF WLt(ToWord(Len(block) \div 4, 4), num)
        THEN [status |-> "IndexBlockReader: corrupt",
              offsets_ |-> <<>>, entries_ |-> <<>>]
        ELSE
        LET off_bytes == WNum(num) * 4
            limit     == Len(block) - 4 - off_bytes
        IN  IF Len(block) < 4 + off_bytes
            THEN [status |-> "IndexBlockReader: corrupt",
                  offsets_ |-> <<>>, entries_ |-> <<>>]
            ELSE
            LET offs == ReadOffsets(block, limit, WNum(num))
            IN  IF ~OffsetsValid(offs, 1, limit)
                THEN [status |-> "IndexBlockReader: corrupt offsets",
                      offsets_ |-> <<>>, entries_ |-> <<>>]
                ELSE [status |-> "ok", offsets_ |-> offs,
                      entries_ |-> Take(block, limit)]

\* The key_at lambda of Find: ok, the divider key of entry idx (0-based) and
\* its handle.
KeyAt(r, idx) ==
    LET sv == Drop(r.entries_, WNum(r.offsets_[idx + 1]))
        kl == GetVarint32(sv)
    IN  IF ~kl.ok
        THEN [ok |-> FALSE, key |-> <<>>, h |-> NoHandle]
        ELSE IF WLt(ToWord(Len(kl.rest), 8),
                    WAdd(WExt(kl.out, 8), ToWord(16, 8)))
        THEN [ok |-> FALSE, key |-> <<>>, h |-> NoHandle]
        ELSE [ok |-> TRUE, key |-> Take(kl.rest, WNum(kl.out)),
              h |-> BlockHandleDecodeFrom(Drop(kl.rest, WNum(kl.out))).h]

RECURSIVE DividerSearch(_, _, _, _)
\* The binary search of Find for the rightmost divider key <= search_key.
DividerSearch(r, search_key, lo, hi) ==
    IF lo < hi
    THEN LET mid == (lo + hi + 1) \div 2
             k   == KeyAt(r, mid)
         IN  IF ~k.ok THEN [ok |-> FALSE, lo |-> lo]
             ELSE IF StrLe(k.key, search_key)
             THEN DividerSearch(r, search_key, mid, hi)
             ELSE DividerSearch(r, search_key, lo, mid - 1)
    ELSE [ok |-> TRUE, lo |-> lo]

\* A Find that reports the handle of the entry after the one it found.
IndexBlockReaderFindNext(r, search_key) ==
    IF Len(r.offsets_) = 0 THEN Lookup(FALSE, NoHandle)
    ELSE LET s == DividerSearch(r, search_key, 0, Len(r.offsets_) - 1)
             n == IF s.lo + 1 < Len(r.offsets_) THEN s.lo + 1 ELSE s.lo
             k == KeyAt(r, n)
         IN  IF ~s.ok \/ ~k.ok THEN Lookup(FALSE, NoHandle)
             ELSE Lookup(~StrLt(search_key, k.key), k.h)

\* IndexBlockReader::Find(search_key, handle_out), handle_out a
\* default-constructed BlockHandle before the call.
IndexBlockReaderFind(r, search_key) ==
    IF Len(r.offsets_) = 0 THEN Lookup(FALSE, NoHandle)
    ELSE LET s == DividerSearch(r, search_key, 0, Len(r.offsets_) - 1)
         IN  IF ~s.ok THEN Lookup(FALSE, NoHandle)
             ELSE LET k == KeyAt(r, s.lo)
                  IN  IF ~k.ok THEN Lookup(FALSE, NoHandle)
                      ELSE IF StrLt(search_key, k.key) THEN Lookup(FALSE, k.h)
                      ELSE Lookup(TRUE, k.h)

\* ------------------------------------------------------------------------
\* Data block: a builder is fed, finished, and its block is read
\* ------------------------------------------------------------------------

MaxChain == 17

\* The restart intervals a builder is constructed with.
RestartIntervals ==
    {1, 2, 4, 16}

\* Keys that can be added in any increasing selection: the empty key, a key
\* and an extension of it.
ShortKeys ==
    {<<>>, <<97>>, <<97, 98>>}

\* A run of keys above the short ones, long enough to pass a restart
\* interval of 16: "caa", "cab", "cac", "cad", "cba", ...
ChainKey(i) ==
    <<99, 97 + (i \div 4), 97 + (i % 4)>>

ChainKeys ==
    {ChainKey(i) : i \in 0..(MaxChain - 1)}

\* Keys that are never added: between two keys, a proper prefix of a key,
\* an extension of a key, above every key.
AbsentKeys ==
    {<<97, 97>>, <<98>>, <<99>>, <<99, 97>>, <<99, 98, 97, 97>>, <<122>>}

\* The value stored with a key: empty for two-byte keys.
ValueOf(k) ==
    IF Len(k) = 2 THEN <<>> ELSE <<118>> \o k

\* The key is above every key added to the builder and written to the file.
Fresh(k) ==
    /\ \A i \in 1..Len(dbAdded) : StrLt(dbAdded[i].key, k)
    /\ \A i \in 1..Len(sstData) : StrLt(sstData[i].key, k)

\* The keys the caller may pass to Add next: a short key above the keys
\* added, the first chain key not yet added, or the first key once more.
NextBlockKeys ==
    {k \in ShortKeys : Fresh(k)}
    \cup (IF Len(dbAdded) = 1 THEN {dbAdded[1].key} ELSE {})
    \cup {k \in ChainKeys :
            \A j \in ChainKeys : StrLt(j, k) =>
                \E i \in 1..Len(dbAdded) : dbAdded[i].key = j}

\* No Get call has been made.
NoGot ==
    [key |-> <<>>, status |-> "none", found |-> FALSE, value |-> <<>>]

BlockInit(intervals) ==
    /\ db \in {DataBlockBuilder(i) : i \in intervals}
    /\ dbAdded = <<>>
    /\ dbStatus = "ok"
    /\ dbGot = NoGot

\* builder.Add(key, value); a caller stops at the first exception.
DbAdd(key, value) ==
    /\ ~sstDone
    /\ dbStatus = "ok"
    /\ dbGot = NoGot
    /\ LET res == DataBlockBuilderAdd(db, key, value)
       IN  /\ db' = res.b
           /\ dbStatus' = res.status
           /\ dbAdded' = IF res.status = "ok"
                         THEN Append(dbAdded, [key |-> key, value |-> value])
                         ELSE dbAdded
    /\ UNCHANGED <<dbGot, walVars, indexVars, sstVars, fmtVars, bloomVars, slVars, readVars, levelVars, retryVars, fileVars>>

\* builder.Finish()
DbFinish ==
    /\ ~sstDone
    /\ dbStatus = "ok"
    /\ dbGot = NoGot
    /\ db' = DataBlockBuilderFinish(db)
    /\ UNCHANGED <<dbAdded, dbStatus, dbGot>>
    /\ UNCHANGED <<walVars, indexVars, sstVars, fmtVars, bloomVars, slVars, readVars, levelVars, retryVars, fileVars>>

\* What a lookup that read outside its block may deliver.
UbOutcomes(key) ==
    {[key |-> key, status |-> "ok", found |-> f, value |-> v] :
        f \in BOOLEAN, v \in {<<>>, <<0>>}}
    \cup {[key |-> key, status |-> "crash", found |-> FALSE, value |-> <<>>]}

\* DataBlockReader r(block); r.Get(key, v) with v empty before the call.
ReadDataBlock(block, key) ==
    LET r == DataBlockReader(block)
    IN  IF r.status # "ok"
        THEN {[key |-> key, status |-> r.status, found |-> FALSE,
               value |-> <<>>]}
        ELSE LET g == DataBlockReaderGet(r, key)
             IN  IF g.ub THEN UbOutcomes(key)
                 ELSE {[key |-> key, status |-> "ok", found |-> g.found,
                        value |-> g.value]}

\* A reader is constructed over the bytes Finish returned and asked for key.
DbGet(key) ==
    /\ db.finished_
    /\ dbStatus = "ok"
    /\ dbGot = NoGot
    /\ dbGot' \in ReadDataBlock(db.buffer_, key)
    /\ UNCHANGED <<db, dbAdded, dbStatus>>
    /\ UNCHANGED <<walVars, indexVars, sstVars, fmtVars, bloomVars, slVars, readVars, levelVars, retryVars, fileVars>>

BlockNext ==
    \/ \E k \in NextBlockKeys : DbAdd(k, ValueOf(k))
    \/ DbFinish
    \/ \E k \in ShortKeys \cup ChainKeys \cup AbsentKeys : DbGet(k)

\* C4: when the keys accepted by Add were strictly increasing, a
\* DataBlockReader over the bytes Finish returned is constructed without
\* error, Get(k_i) returns true with the value v_i added with k_i, and
\* Get(x) returns false for every x that was not added, whatever the
\* restart interval in {1, 2, 4, 16}.
C4_DataBlockRoundTrip ==
    (dbGot # NoGot
        /\ \A i \in 1..(Len(dbAdded) - 1) :
              StrLt(dbAdded[i].key, dbAdded[i + 1].key)) =>
        /\ dbGot.status = "ok"
        /\ \A i \in 1..Len(dbAdded) :
              dbAdded[i].key = dbGot.key =>
                  dbGot.found /\ dbGot.value = dbAdded[i].value
        /\ (\A i \in 1..Len(dbAdded) : dbAdded[i].key # dbGot.key) =>
              ~dbGot.found

\* With restart interval 16, seventeen and more keys were added, the first
\* of them empty, and the key that started the second run was found.
C4_Witness ==
    /\ db.restart_interval_ = 16
    /\ Len(db.restarts_) = 2
    /\ Len(dbAdded) > 16
    /\ dbAdded[1].key = <<>>
    /\ dbGot.found
    /\ dbGot.key = dbAdded[17].key
    /\ dbGot.value = dbAdded[17].value

\* C16: a DataBlockBuilder is immutable after Finish().  In every state
\* after the first Finish, Add of any key fails with the already-finished
\* error and leaves every member as it was, a further Finish() returns the
\* bytes the builder already holds, and no step of the caller changes the
\* builder, so those are the bytes the first Finish returned.
C16_ImmutableAfterFinish ==
    /\ [](db.finished_ =>
            /\ \A k \in ShortKeys \cup ChainKeys :
                  LET res == DataBlockBuilderAdd(db, k, ValueOf(k))
                  IN  /\ res.status = "DataBlockBuilder: already finished"
                      /\ res.b = db
            /\ DataBlockBuilderFinish(db).buffer_ = db.buffer_
            /\ DataBlockBuilderFinish(db) = db)
    /\ [][db.finished_ =>
            /\ db' = db
            /\ dbAdded' = dbAdded
            /\ dbStatus' \in {dbStatus, "DataBlockBuilder: already finished"}]_vars

\* Two keys were added, Finish was called, and a key above both, which an
\* unfinished builder accepts, was refused as already finished.
C16_Witness ==
    /\ db.finished_
    /\ Len(dbAdded) = 2
    /\ StrLt(dbAdded[1].key, dbAdded[2].key)
    /\ dbStatus = "DataBlockBuilder: already finished"
    /\ Len(db.buffer_) > 8

\* C18: Add rejects, with the out-of-order error and without changing the
\* builder, every key that is not strictly greater than the previously
\* accepted key, whatever that previous key is, the empty key included; so
\* the keys accepted are strictly increasing.
C18_OutOfOrderRejected ==
    /\ \A i \in 1..(Len(dbAdded) - 1) :
          StrLt(dbAdded[i].key, dbAdded[i + 1].key)
    /\ (~db.finished_ /\ dbAdded # <<>>) =>
          \A k \in ShortKeys \cup ChainKeys :
              ~StrLt(dbAdded[Len(dbAdded)].key, k) =>
                  LET res == DataBlockBuilderAdd(db, k, ValueOf(k))
                  IN  /\ res.status =
                          "DataBlockBuilder: keys must be strictly increasing"
                      /\ res.b = db

\* ------------------------------------------------------------------------
\* Index block: a builder is fed, finished, and its block is searched
\* ------------------------------------------------------------------------

MaxDividers == 3

\* Divider keys: the empty key, a key, an extension of it, another key.
DividerKeys ==
    {<<>>, <<98>>, <<98, 99>>, <<100>>}

\* Handles, with offsets and sizes up to 2^64 - 1.
Handles ==
    {[offset |-> ToWord(0, 8), size |-> ToWord(100, 8)],
     [offset |-> ToWord(100, 8),
      size |-> <<255, 255, 255, 255, 255, 255, 255, 255>>],
     [offset |-> <<8, 7, 6, 5, 4, 3, 2, 1>>, size |-> ToWord(0, 8)]}

\* Search keys: the dividers, and keys before, between and after them.
SearchKeys ==
    DividerKeys \cup {<<97>>, <<98, 98>>, <<98, 99, 0>>, <<99>>, <<122>>}

\* No Find call has been made.
NoFind ==
    [key |-> <<>>, status |-> "none", found |-> FALSE, value |-> NoHandle]

IndexInit ==
    /\ ib = IndexBlockBuilder
    /\ ibAdded = <<>>
    /\ ibBlock = <<>>
    /\ ibGot = NoFind

\* ib.Add(divider_key, handle); a key the builder rejects leaves it as it was.
IbAdd(divider_key, handle) ==
    /\ ibBlock = <<>>
    /\ Len(ibAdded) < MaxDividers
    /\ LET res == IndexBlockBuilderAdd(ib, divider_key, handle)
       IN  /\ ib' = res.b
           /\ ibAdded' = IF res.status = "ok"
                         THEN Append(ibAdded, [key |-> divider_key,
                                               handle |-> handle])
                         ELSE ibAdded
    /\ UNCHANGED <<ibBlock, ibGot>>
    /\ UNCHANGED <<walVars, blockVars, sstVars, fmtVars, bloomVars, slVars, readVars, levelVars, retryVars, fileVars>>

\* block = ib.Finish()
IbFinish ==
    /\ ibBlock = <<>>
    /\ ib' = IndexBlockBuilderFinish(ib)
    /\ ibBlock' = ib'.buffer_
    /\ UNCHANGED <<ibAdded, ibGot>>
    /\ UNCHANGED <<walVars, blockVars, sstVars, fmtVars, bloomVars, slVars, readVars, levelVars, retryVars, fileVars>>

\* IndexBlockReader r(block); r.Find(key, h) with h default-constructed.
ReadIndexBlock(block, key) ==
    LET r == IndexBlockReader(block)
    IN  IF r.status # "ok"
        THEN [key |-> key, status |-> r.status, found |-> FALSE,
              value |-> NoHandle]
        ELSE LET g == IndexBlockReaderFind(r, key)
             IN  [key |-> key, status |-> "ok", found |-> g.found,
                  value |-> g.value]

\* A reader is constructed over the bytes Finish returned and asked for key.
IbFind(key) ==
    /\ ibBlock # <<>>
    /\ ibGot = NoFind
    /\ ibGot' = ReadIndexBlock(ibBlock, key)
    /\ UNCHANGED <<ib, ibAdded, ibBlock>>
    /\ UNCHANGED <<walVars, blockVars, sstVars, fmtVars, bloomVars, slVars, readVars, levelVars, retryVars, fileVars>>

IndexNext ==
    \/ \E d \in DividerKeys, h \in Handles : IbAdd(d, h)
    \/ IbFinish
    \/ \E x \in SearchKeys : IbFind(x)

\* The dividers at or below x, by position in the order they were added.
AtOrBelow(x) ==
    {i \in 1..Len(ibAdded) : StrLe(ibAdded[i].key, x)}

\* C5: when the dividers accepted by Add were strictly increasing, an
\* IndexBlockReader over the finished bytes is constructed without error,
\* Find(x) returns false exactly when no divider is at or below x (x is
\* below the first divider, or the index is empty), and otherwise returns
\* true with the offset and size added with the largest divider d_i <= x.
C5_IndexRouting ==
    (ibGot # NoFind
        /\ \A i \in 1..(Len(ibAdded) - 1) :
              StrLt(ibAdded[i].key, ibAdded[i + 1].key)) =>
        /\ ibGot.status = "ok"
        /\ ibGot.found <=> AtOrBelow(ibGot.key) # {}
        /\ ibGot.found =>
              \E i \in AtOrBelow(ibGot.key) :
                  /\ \A j \in AtOrBelow(ibGot.key) : j <= i
                  /\ ibGot.value = ibAdded[i].handle

\* Three dividers with three different handles were added and a key strictly
\* between the second and the third was routed to the second handle.
C5_Witness ==
    /\ Len(ibAdded) = 3
    /\ ibAdded[1].handle # ibAdded[2].handle
    /\ ibAdded[2].handle # ibAdded[3].handle
    /\ ibGot.found
    /\ StrLt(ibAdded[2].key, ibGot.key)
    /\ StrLt(ibGot.key, ibAdded[3].key)
    /\ ibGot.value = ibAdded[2].handle

\* ------------------------------------------------------------------------
\* Index block builder used again after Finish
\* ------------------------------------------------------------------------

MaxReuseBytes == 64

\* ib.Add(divider_key, handle) on a builder whose Finish has been called.
IbAddLate(divider_key, handle) ==
    /\ ibBlock # <<>>
    /\ Len(ibAdded) < MaxDividers
    /\ LET res == IndexBlockBuilderAdd(ib, divider_key, handle)
       IN  /\ ib' = res.b
           /\ ibAdded' = IF res.status = "ok"
                         THEN Append(ibAdded, [key |-> divider_key,
                                               handle |-> handle])
                         ELSE ibAdded
    /\ UNCHANGED <<ibBlock, ibGot>>
    /\ UNCHANGED <<walVars, blockVars, sstVars, fmtVars, bloomVars, slVars, readVars, levelVars, retryVars, fileVars>>

\* block = ib.Finish() on a builder whose Finish has been called.
IbFinishAgain ==
    /\ ibBlock # <<>>
    /\ Len(ib.buffer_) <= MaxReuseBytes
    /\ ib' = IndexBlockBuilderFinish(ib)
    /\ ibBlock' = ib'.buffer_
    /\ UNCHANGED <<ibAdded, ibGot>>
    /\ UNCHANGED <<walVars, blockVars, sstVars, fmtVars, bloomVars, slVars, readVars, levelVars, retryVars, fileVars>>

IndexReuseNext ==
    \/ \E d \in DividerKeys, h \in Handles : IbAdd(d, h)
    \/ IbFinish
    \/ \E d \in DividerKeys, h \in Handles : IbAddLate(d, h)
    \/ IbFinishAgain

\* C17: an IndexBlockBuilder is immutable after Finish().  Once Finish has
\* returned a block, a second or n-th Finish() returns exactly the same
\* bytes, and an Add fails as already finished instead of extending the
\* block: no step changes the builder, the bytes Finish returns or the
\* dividers accepted.
C17_IndexBuilderImmutable ==
    [][ibBlock # <<>> =>
          /\ ib' = ib
          /\ ibBlock' = ibBlock
          /\ ibAdded' = ibAdded]_vars

\* ------------------------------------------------------------------------
\* SSTable image: [data blocks][index block][footer], written and read back
\* ------------------------------------------------------------------------

MaxBlocks == 3

\* The keys of the table, in any increasing selection, split into blocks at
\* any places.
SstKeys ==
    {<<>>, <<97>>, <<97, 98>>, <<97, 98, 99>>, <<98>>}

\* Lookup keys: the table's keys and keys before, between and after them.
SstProbes ==
    SstKeys \cup {<<0>>, <<97, 97>>, <<97, 98, 98>>, <<122>>}

SstInit ==
    /\ sstFile = <<>>
    /\ sstData = <<>>
    /\ sstDone = FALSE
    /\ sstGot = NoGot

\* The block returned by Finish is appended to the file and entered in the
\* index under its first key; a new builder takes the next block.
SstAppendBlock ==
    /\ ~sstDone
    /\ dbStatus = "ok"
    /\ db.finished_
    /\ dbAdded # <<>>
    /\ Len(ibAdded) < MaxBlocks
    /\ LET h   == [offset |-> ToWord(Len(sstFile), 8),
                   size |-> ToWord(Len(db.buffer_), 8)]
           res == IndexBlockBuilderAdd(ib, dbAdded[1].key, h)
       IN  /\ ib' = res.b
           /\ dbStatus' = res.status
           /\ ibAdded' = IF res.status = "ok"
                         THEN Append(ibAdded, [key |-> dbAdded[1].key,
                                               handle |-> h])
                         ELSE ibAdded
    /\ sstFile' = sstFile \o db.buffer_
    /\ sstData' = sstData \o dbAdded
    /\ db' = DataBlockBuilder(db.restart_interval_)
    /\ dbAdded' = <<>>
    /\ UNCHANGED <<dbGot, ibBlock, ibGot, sstDone, sstGot, walVars, fmtVars, bloomVars, slVars, readVars, levelVars, retryVars, fileVars>>

\* The index block and the footer that points to it end the file.
SstFinish ==
    /\ ~sstDone
    /\ dbStatus = "ok"
    /\ ~db.finished_
    /\ dbAdded = <<>>
    /\ ib' = IndexBlockBuilderFinish(ib)
    /\ ibBlock' = ib'.buffer_
    /\ LET footer == [filter_handle |-> NoHandle,
                      index_handle |-> [offset |-> ToWord(Len(sstFile), 8),
                                        size |-> ToWord(Len(ibBlock'), 8)],
                      magic |-> kMagic]
       IN  sstFile' = (sstFile \o ibBlock') \o SSTableFooterEncodeTo(footer, <<>>)
    /\ sstDone' = TRUE
    /\ UNCHANGED <<blockVars, ibAdded, ibGot, sstData, sstGot, walVars, fmtVars, bloomVars, slVars, readVars, levelVars, retryVars, fileVars>>

\* std::string_view::substr(pos, n) with uint64_t pos and n: the view, or
\* std::out_of_range when pos is beyond the end.
Substr(sv, pos, n) ==
    IF WLt(ToWord(Len(sv), 8), pos)
    THEN [ok |-> FALSE, sv |-> <<>>]
    ELSE LET p     == WNum(pos)
             rlen  == IF WLt(ToWord(Len(sv) - p, 8), n) THEN Len(sv) - p
                      ELSE WNum(n)
         IN  [ok |-> TRUE, sv |-> SubSeq(sv, p + 1, p + rlen)]

\* The lookup of the end-to-end tests: footer from the last 40 bytes, index
\* block from its handle, Find, data block from the found handle, Get.
ReadSSTable(file, key) ==
    LET fail(st) == {[key |-> key, status |-> st, found |-> FALSE,
                      value |-> <<>>]}
    IN  IF Len(file) < 40 THEN fail("std::out_of_range")
        ELSE
        LET got == SSTableFooterDecodeFrom(Drop(file, Len(file) - 40))
            iv  == Substr(file, got.f.index_handle.offset,
                          got.f.index_handle.size)
        IN  IF got.status # "ok" THEN fail(got.status)
            ELSE IF ~iv.ok THEN fail("std::out_of_range")
            ELSE
            LET ir == IndexBlockReader(iv.sv)
                fh == IndexBlockReaderFind(ir, key)
                bv == Substr(file, fh.value.offset, fh.value.size)
            IN  IF ir.status # "ok" THEN fail(ir.status)
                ELSE IF ~fh.found THEN fail("ok")
                ELSE IF ~bv.ok THEN fail("std::out_of_range")
                ELSE ReadDataBlock(bv.sv, key)

\* fetch(key)
SstGet(key) ==
    /\ sstDone
    /\ sstGot = NoGot
    /\ sstGot' \in ReadSSTable(sstFile, key)
    /\ UNCHANGED <<blockVars, indexVars, sstFile, sstData, sstDone>>
    /\ UNCHANGED <<walVars, fmtVars, bloomVars, slVars, readVars, levelVars, retryVars, fileVars>>

SstNext ==
    \/ \E k \in SstKeys : Fresh(k) /\ DbAdd(k, ValueOf(k))
    \/ DbFinish
    \/ SstAppendBlock
    \/ SstFinish
    \/ \E x \in SstProbes : SstGet(x)

\* C6: in a finished image whose data blocks hold strictly increasing keys
\* from the first block to the last, whose index entries carry each block's
\* first key and real (offset, size), and whose footer carries the index
\* block's real (offset, size), the lookup through footer, index block and
\* data block raises no error, returns the stored value for every key
\* stored in a block, and returns not-found for every other key.
C6_EndToEndLookup ==
    (sstGot # NoGot
        /\ \A i \in 1..(Len(sstData) - 1) :
              StrLt(sstData[i].key, sstData[i + 1].key)) =>
        /\ sstGot.status = "ok"
        /\ \A i \in 1..Len(sstData) :
              sstData[i].key = sstGot.key =>
                  sstGot.found /\ sstGot.value = sstData[i].value
        /\ (\A i \in 1..Len(sstData) : sstData[i].key # sstGot.key) =>
              ~sstGot.found

\* The file holds at least two data blocks and the key found is in the
\* second block, after that block's first key.
C6_Witness ==
    /\ sstDone
    /\ Len(ibAdded) >= 2
    /\ sstGot.found
    /\ StrLt(ibAdded[2].key, sstGot.key)
    /\ Len(ibAdded) >= 3 => StrLt(sstGot.key, ibAdded[3].key)
    /\ \E i \in 1..Len(sstData) :
          sstData[i].key = sstGot.key /\ sstData[i].value = sstGot.value

\* ------------------------------------------------------------------------
\* Format types: a handle or a footer is encoded and decoded
\* ------------------------------------------------------------------------

\* Footers: with and without a filter block, with the magic of the format
\* and with other magics.
Footers ==
    {[filter_handle |-> fh, index_handle |-> h, magic |-> m] :
        fh \in {NoHandle, [offset |-> ToWord(7, 8), size |-> ToWord(9, 8)]},
        h \in Handles,
        m \in {kMagic, ToWord(0, 8), <<1, 2, 3, 4, 5, 6, 7, 8>>}}

\* What dst holds before EncodeTo, and what follows the encoding in the view.
FmtPadding ==
    {<<>>, <<7, 7>>}

FmtInit ==
    /\ fmtObj = [kind |-> "none", h |-> NoHandle, f |-> NoFooter]
    /\ fmtDst = [before |-> <<>>, after |-> <<>>]
    /\ fmtIn = <<>>
    /\ fmtRes = [status |-> "none", h |-> NoHandle, f |-> NoFooter,
                 in |-> <<>>, prev |-> <<>>]

\* h.EncodeTo(dst); a view is taken of the encoding and what follows it.
FmtEncodeHandle(h, dst, tail) ==
    /\ fmtObj.kind = "none"
    /\ fmtObj' = [kind |-> "handle", h |-> h, f |-> NoFooter]
    /\ fmtDst' = [before |-> dst, after |-> BlockHandleEncodeTo(h, dst)]
    /\ fmtIn' = Drop(fmtDst'.after, Len(dst)) \o tail
    /\ UNCHANGED <<fmtRes, walVars, blockVars, indexVars, sstVars, bloomVars, slVars, readVars, levelVars, retryVars, fileVars>>

\* f.EncodeTo(dst); a view is taken of the encoding and what follows it.
FmtEncodeFooter(f, dst, tail) ==
    /\ fmtObj.kind = "none"
    /\ fmtObj' = [kind |-> "footer", h |-> NoHandle, f |-> f]
    /\ fmtDst' = [before |-> dst, after |-> SSTableFooterEncodeTo(f, dst)]
    /\ fmtIn' = Drop(fmtDst'.after, Len(dst)) \o tail
    /\ UNCHANGED <<fmtRes, walVars, blockVars, indexVars, sstVars, bloomVars, slVars, readVars, levelVars, retryVars, fileVars>>

\* The view is cut short of a whole encoding: only its first m bytes remain.
FmtTruncate(m) ==
    /\ fmtObj.kind # "none"
    /\ fmtRes.status = "none"
    /\ m < (IF fmtObj.kind = "handle" THEN 16 ELSE 40)
    /\ Len(fmtIn) > m
    /\ fmtIn' = Take(fmtIn, m)
    /\ UNCHANGED <<fmtObj, fmtDst, fmtRes>>
    /\ UNCHANGED <<walVars, blockVars, indexVars, sstVars, bloomVars, slVars, readVars, levelVars, retryVars, fileVars>>

\* BlockHandle::DecodeFrom(in) or SSTableFooter::DecodeFrom(in)
FmtDecode ==
    /\ fmtObj.kind # "none"
    /\ fmtRes.status = "none"
    /\ IF fmtObj.kind = "handle"
       THEN LET r == BlockHandleDecodeFrom(fmtIn)
            IN  /\ fmtRes' = [status |-> r.status, h |-> r.h, f |-> NoFooter,
                              in |-> r.in, prev |-> fmtIn]
                /\ fmtIn' = r.in
       ELSE LET r == SSTableFooterDecodeFrom(fmtIn)
            IN  /\ fmtRes' = [status |-> r.status, h |-> NoHandle, f |-> r.f,
                              in |-> r.in, prev |-> fmtIn]
                /\ fmtIn' = r.in
    /\ UNCHANGED <<fmtObj, fmtDst>>
    /\ UNCHANGED <<walVars, blockVars, indexVars, sstVars, bloomVars, slVars, readVars, levelVars, retryVars, fileVars>>

FmtNext ==
    \/ \E h \in Handles \cup {NoHandle}, dst \in FmtPadding,
          tail \in FmtPadding : FmtEncodeHandle(h, dst, tail)
    \/ \E f \in Footers, dst \in FmtPadding, tail \in FmtPadding :
          FmtEncodeFooter(f, dst, tail)
    \/ \E m \in 0..39 : FmtTruncate(m)
    \/ FmtDecode

C8_MagicValidated ==
    (fmtObj.kind = "footer" /\ fmtRes.status # "none"
        /\ Len(fmtRes.prev) >= 40) =>
        /\ fmtRes.status = "ok" => fmtRes.f.magic = kMagic
        /\ SubSeq(fmtRes.prev, 33, 40) # kMagic => fmtRes.status # "ok"

\* ------------------------------------------------------------------------
\* Bloom filter (bloom_filter.cpp)
\* ------------------------------------------------------------------------

\* a >> n for a 64-bit word, 0 <= n < 64.
WShr(a, n) ==
    LET q == n \div 8
        r == n % 8
        B(i) == IF i > 8 THEN 0 ELSE a[i]
        S(i) == (B(i + q) \div (2 ^ r)) + (B(i + q + 1) % (2 ^ r)) * (2 ^ (8 - r))
    IN  <<S(1), S(2), S(3), S(4), S(5), S(6), S(7), S(8)>>

RECURSIVE WMulByte(_, _, _)
\* a * d + c for a byte d, truncated to the width of a.
WMulByte(a, d, c) ==
    IF a = <<>> THEN <<>>
    ELSE LET p == a[1] * d + c
         IN  <<p % 256>> \o WMulByte(Tail(a), d, p \div 256)

RECURSIVE WMul(_, _)
\* a * b in unsigned arithmetic of the width of a (wraps).
WMul(a, b) ==
    IF b = <<>> THEN ToWord(0, Len(a))
    ELSE WAdd(WMulByte(a, b[1], 0),
              <<0>> \o Take(WMul(a, Tail(b)), Len(a) - 1))

RECURSIVE WRemSmall(_, _)
\* a % m for a word a and an integer 0 < m < 2^23.
WRemSmall(a, m) ==
    IF a = <<>> THEN 0 ELSE (WRemSmall(Tail(a), m) * 256 + a[1]) % m

\* x % m for 64-bit words; the quotient-free form above serves while the
\* divisor is below 2^23.
WRem(x, m) ==
    CASE SubSeq(m, 4, 8) = <<0, 0, 0, 0, 0>> /\ m[3] < 128
           -> ToWord(WRemSmall(x, WNum(m)), 8)

\* One mixing round of Hash64: x ^= x >> 30; x *= 0xBF58476D1CE4E5B9;
\* x ^= x >> 27; x *= 0x94D049BB133111EB.
HashMix(x) ==
    LET a == WMul(WXor(x, WShr(x, 30)),
                  <<185, 229, 228, 28, 109, 71, 88, 191>>)
    IN  WMul(WXor(a, WShr(a, 27)), <<235, 17, 49, 19, 187, 73, 208, 148>>)

RECURSIVE Hash64Chunks(_, _)
\* The body of Hash64 after x is seeded: one round per full 8-byte chunk
\* (read by memcpy), one round for the zero-padded tail, and the final
\* x ^= x >> 31.
Hash64Chunks(s, x) ==
    IF 8 <= Len(s)
    THEN Hash64Chunks(Drop(s, 8),
             HashMix(WAdd(x, WAdd(Take(s, 8),
                                  <<21, 124, 74, 127, 185, 121, 55, 158>>))))
    ELSE LET y == HashMix(WAdd(x, WExt(s, 8)))
         IN  WXor(y, WShr(y, 31))

\* detail::Hash64(s, seed)
Hash64(s, seed) ==
    Hash64Chunks(s, WXor(seed, WAdd(<<21, 124, 74, 127, 185, 121, 55, 158>>,
                                    ToWord(Len(s), 8))))

\* -log(p) / (log(2) * log(2)) in millionths, for the rates the model
\* builds filters with (p in billionths, after clamping).
BitsPerItem(p) ==
    CASE p = 1 -> 43132763
      [] p = 10000000 -> 9585058
      [] p = 100000000 -> 4792529
      [] p = 500000000 -> 1442695
      [] p = 999999000 -> 2

\* BloomFilter::OptimalNumBits(n, p), p in billionths.
OptimalNumBits(n, p) ==
    IF n = 0 THEN 1
    ELSE LET p1 == IF p <= 0 THEN 1 ELSE p
             p2 == IF p1 >= 1000000000 THEN 999999000 ELSE p1
             mm == (n * BitsPerItem(p2) + 999999) \div 1000000
         IN  IF mm = 0 THEN 1 ELSE mm

\* BloomFilter::OptimalNumHashes(n, m): round((m / n) * log(2)), at least 1.
OptimalNumHashes(n, m) ==
    IF n = 0 \/ m = 0 THEN 1
    ELSE LET kk == (2 * m * 693147 + n * 1000000) \div (2 * n * 1000000)
         IN  IF kk = 0 THEN 1 ELSE kk

\* BloomFilter(expected_items, false_positive_rate): the members after the
\* constructor.  num_bits_ is a 64-bit word, bits_ a vector of bytes.
BloomFilter(expected_items, false_positive_rate) ==
    LET m == OptimalNumBits(expected_items, false_positive_rate)
    IN  [num_bits_   |-> ToWord(m, 8),
         num_hashes_ |-> ToWord(OptimalNumHashes(expected_items, m), 4),
         bits_       |-> ToWord(0, (m + 7) \div 8)]

\* set_bit(bit_index) writing bit 0 of the byte whatever the index.
BloomFilterSetBitZero(bits, bit_index) ==
    [bits EXCEPT ![(bit_index \div 8) + 1] = OrByte(@, 1)]

\* set_bit(bit_index): bits_[bit_index >> 3] |= 1 << (bit_index & 7).
BloomFilterSetBit(bits, bit_index) ==
    [bits EXCEPT ![(bit_index \div 8) + 1] = OrByte(@, 2 ^ (bit_index % 8))]

\* get_bit(bit_index)
BloomFilterGetBit(bits, bit_index) ==
    (bits[(bit_index \div 8) + 1] \div (2 ^ (bit_index % 8))) % 2 = 1

RECURSIVE BloomFilterProbe(_, _, _, _)
\* The loop of positions(): out[i] = x; x += step; x %= m, k times.
BloomFilterProbe(x, step, m, k) ==
    IF k = 0 THEN <<>>
    ELSE <<WNum(x)>> \o BloomFilterProbe(WRem(WAdd(x, step), m), step, m, k - 1)

\* positions(key, out, k): the k bit positions of key, in probe order.
BloomFilterPositions(f, key) ==
    LET h1 == Hash64(key, <<211, 8, 163, 133, 136, 106, 63, 36>>)
        h2 == Hash64(key, <<68, 115, 112, 3, 46, 138, 25, 19>>)
        m == f.num_bits_
        step == WOr(WAdd(h2, h2), ToWord(1, 8))
    IN  IF m = ToWord(0, 8)
        THEN ToWord(0, WNum(f.num_hashes_))
        ELSE BloomFilterProbe(WRem(h1, m), step, m, WNum(f.num_hashes_))

RECURSIVE BloomFilterSetAll(_, _)
BloomFilterSetAll(bits, idxs) ==
    IF idxs = <<>> THEN bits
    ELSE BloomFilterSetAll(BloomFilterSetBit(bits, idxs[1]), Tail(idxs))

\* add(key): the filter afterwards.
BloomFilterAdd(f, key) ==
    IF f.num_bits_ = ToWord(0, 8) THEN f
    ELSE [f EXCEPT !.bits_ = BloomFilterSetAll(@, BloomFilterPositions(f, key))]

\* might_contain(key)
BloomFilterMightContain(f, key) ==
    IF f.num_bits_ = ToWord(0, 8) THEN FALSE
    ELSE LET idxs == BloomFilterPositions(f, key)
         IN  \A i \in 1..Len(idxs) : BloomFilterGetBit(f.bits_, idxs[i])

\* serialize() leaving out the pad field.
BloomFilterSerializeNoPad(f) ==
    <<86, 75, 66, 70>> \o ToWord(1, 4) \o f.num_bits_
        \o f.num_hashes_ \o f.bits_

\* serialize(): magic, version, num_bits, num_hashes, pad, bits.
BloomFilterSerialize(f) ==
    <<86, 75, 66, 70>> \o ToWord(1, 4) \o f.num_bits_
        \o f.num_hashes_ \o ToWord(0, 4) \o f.bits_

NoFilter ==
    [num_bits_ |-> ToWord(0, 8), num_hashes_ |-> ToWord(0, 4), bits_ |-> <<>>]

\* BloomFilter::Deserialize(bytes): the filter, or the error thrown.
BloomFilterDeserialize(bytes) ==
    IF Len(bytes) < 24
    THEN [status |-> "BloomFilter: truncated header", f |-> NoFilter]
    ELSE LET magic == DecodeFixed32(bytes, 0)
             ver == DecodeFixed32(bytes, 4)
             m_bits == DecodeFixed64(bytes, 8)
             k == DecodeFixed32(bytes, 16)
             needed == WShr(WAdd(m_bits, ToWord(7, 8)), 3)
         IN  IF magic # <<86, 75, 66, 70>> \/ ver # ToWord(1, 4)
             THEN [status |-> "BloomFilter: bad magic or version",
                   f |-> NoFilter]
             ELSE IF m_bits = ToWord(0, 8) \/ k = ToWord(0, 4)
             THEN [status |-> "BloomFilter: invalid parameters",
                   f |-> NoFilter]
             ELSE IF ToWord(Len(bytes), 8) # WAdd(ToWord(24, 8), needed)
             THEN [status |-> "BloomFilter: size mismatch", f |-> NoFilter]
             ELSE [status |-> "ok",
                   f |-> [num_bits_ |-> m_bits, num_hashes_ |-> k,
                          bits_ |-> Drop(bytes, 24)]]

\* ------------------------------------------------------------------------
\* Bloom filter: one filter, its dump and the filter read back from it
\* ------------------------------------------------------------------------

MaxBloomAdds == 3

\* (expected_items, false_positive_rate in billionths) the filter is built
\* for; rates at or below 0 and at or above 1 are clamped by the constructor.
BloomParams ==
    {<<0, 10000000>>, <<1, 500000000>>, <<2, 100000000>>, <<5, 10000000>>,
     <<1, 0>>, <<3, 1000000000>>, <<1, -1000000000>>, <<1, 2000000000>>}

\* Keys of 0, 1, 2, 8 and 9 bytes.
BloomKeys ==
    {<<>>, <<97>>, <<97, 98>>,
     <<97, 98, 99, 100, 101, 102, 103, 104>>,
     <<97, 98, 99, 100, 101, 102, 103, 104, 105>>}

NoAsk ==
    [asked |-> FALSE, key |-> <<>>, ub |-> FALSE, f |-> FALSE, g |-> FALSE]

BloomInit(params) ==
    /\ bf \in {BloomFilter(q[1], q[2]) : q \in params}
    /\ bfAdded = {}
    /\ bfWire = <<>>
    /\ bfCopy = [status |-> "none", f |-> NoFilter]
    /\ bfAsk = NoAsk

\* bf.add(key), before the filter is dumped; a key may be added again.
BfAdd(key) ==
    /\ bfWire = <<>>
    /\ key \in bfAdded \/ Cardinality(bfAdded) < MaxBloomAdds
    /\ bf' = BloomFilterAdd(bf, key)
    /\ bfAdded' = bfAdded \cup {key}
    /\ UNCHANGED <<bfWire, bfCopy, bfAsk>>
    /\ UNCHANGED <<walVars, blockVars, indexVars, sstVars, fmtVars, slVars, readVars, levelVars, retryVars, fileVars>>

\* dump = bf.serialize()
BfSerialize ==
    /\ bfWire = <<>>
    /\ bfWire' = BloomFilterSerialize(bf)
    /\ UNCHANGED <<bf, bfAdded, bfCopy, bfAsk>>
    /\ UNCHANGED <<walVars, blockVars, indexVars, sstVars, fmtVars, slVars, readVars, levelVars, retryVars, fileVars>>

\* bf2 = BloomFilter::Deserialize(dump)
BfDeserialize ==
    /\ bfWire # <<>>
    /\ bfCopy.status = "none"
    /\ bfCopy' = BloomFilterDeserialize(bfWire)
    /\ UNCHANGED <<bf, bfAdded, bfWire, bfAsk>>
    /\ UNCHANGED <<walVars, blockVars, indexVars, sstVars, fmtVars, slVars, readVars, levelVars, retryVars, fileVars>>

\* bf.might_contain(key) and bf2.might_contain(key)
BfMightContain(key) ==
    /\ bfCopy.status = "ok"
    /\ ~bfAsk.asked
    /\ bfAsk' = [asked |-> TRUE, key |-> key, ub |-> FALSE,
                 f |-> BloomFilterMightContain(bf, key),
                 g |-> BloomFilterMightContain(bfCopy.f, key)]
    /\ UNCHANGED <<bf, bfAdded, bfWire, bfCopy>>
    /\ UNCHANGED <<walVars, blockVars, indexVars, sstVars, fmtVars, slVars, readVars, levelVars, retryVars, fileVars>>

BloomNext ==
    \/ \E key \in BloomKeys : BfAdd(key)
    \/ BfSerialize
    \/ BfDeserialize
    \/ \E key \in BloomKeys : BfMightContain(key)

\* C9: the Bloom filter has no false negatives.  In every state reached by
\* add calls on a filter built for some (n, p), might_contain is true for
\* every key that was passed to add; add never clears a bit that is set; and
\* Deserialize of the filter's dump succeeds and returns a filter for which
\* might_contain is true for every one of those keys as well.
C9_NoFalseNegatives ==
    /\ [](/\ \A k \in bfAdded : BloomFilterMightContain(bf, k)
          /\ bfCopy.status # "none" =>
                /\ bfCopy.status = "ok"
                /\ \A k \in bfAdded : BloomFilterMightContain(bfCopy.f, k))
    /\ [][\A i \in 0..(8 * Len(bf.bits_) - 1) :
              BloomFilterGetBit(bf.bits_, i) => BloomFilterGetBit(bf'.bits_, i)]_vars

\* Three keys, one of them longer than a hash chunk, were added to the
\* 48-bit, 7-hash filter; the filter was dumped and read back; a key that
\* was added was looked up in both filters; and the filter still tells some
\* key apart that was not added.
C9_Witness ==
    /\ bf.num_bits_ = ToWord(48, 8)
    /\ bf.num_hashes_ = ToWord(7, 4)
    /\ Cardinality(bfAdded) = 3
    /\ <<97, 98, 99, 100, 101, 102, 103, 104, 105>> \in bfAdded
    /\ bfCopy.status = "ok"
    /\ bfAsk.asked /\ bfAsk.key \in bfAdded /\ bfAsk.f /\ bfAsk.g
    /\ \E k \in BloomKeys \ bfAdded : ~BloomFilterMightContain(bf, k)

\* C10: the dump of a filter is 24 + ceil(num_bits / 8) bytes long and
\* starts with magic 0x46424B56, version 1, num_bits (8 bytes), num_hashes
\* and a zero pad, all little-endian; Deserialize of the dump succeeds and
\* returns a filter with the same bit_size, num_hashes and bit array, whose
\* own dump is the same bytes and whose might_contain gives the answer of
\* the dumped filter.
C10_SerializeRoundTrip ==
    LET n == WNum(bf.num_bits_)
        ceil == IF n % 8 = 0 THEN n \div 8 ELSE (n \div 8) + 1
    IN  bfWire # <<>> =>
            /\ Len(bfWire) = 24 + ceil
            /\ Take(bfWire, 24) =
                   <<86, 75, 66, 70>> \o <<1, 0, 0, 0>> \o ToWord(n, 8)
                       \o ToWord(WNum(bf.num_hashes_), 4) \o <<0, 0, 0, 0>>
            /\ Drop(bfWire, 24) = bf.bits_
            /\ bfCopy.status # "none" =>
                  /\ bfCopy.status = "ok"
                  /\ bfCopy.f.num_bits_ = bf.num_bits_
                  /\ bfCopy.f.num_hashes_ = bf.num_hashes_
                  /\ bfCopy.f.bits_ = bf.bits_
                  /\ BloomFilterSerialize(bfCopy.f) = bfWire
            /\ bfAsk.asked => bfAsk.f = bfAsk.g

\* A 10-bit filter (two bytes of bits, the second partly used) with keys
\* added was dumped to 26 bytes and read back, and both filters were asked
\* for a key they hold and, in another run, for one they reject.
C10_Witness ==
    /\ bf.num_bits_ = ToWord(10, 8)
    /\ bfAdded # {}
    /\ Len(bfWire) = 26
    /\ bfCopy.status = "ok"
    /\ bfCopy.f.bits_ # <<0, 0>>
    /\ bfAsk.asked /\ bfAsk.key \notin bfAdded /\ ~bfAsk.f /\ ~bfAsk.g

\* ------------------------------------------------------------------------
\* Bloom filter: Deserialize on bytes that did not come from serialize
\* ------------------------------------------------------------------------

\* 2^64 - d as a 64-bit word, 1 <= d <= 255.
NearMax(d) ==
    <<256 - d, 255, 255, 255, 255, 255, 255, 255>>

\* Header fields and bit arrays the crafted dumps are put together from.
BloomDumps ==
    {magic \o ver \o m \o k \o <<0, 0, 0, 0>> \o body :
        magic \in {<<86, 75, 66, 70>>},
        ver \in {ToWord(1, 4)},
        m \in {ToWord(0, 8), ToWord(1, 8), ToWord(9, 8), ToWord(16, 8),
               NearMax(1), NearMax(7), NearMax(8)},
        k \in {ToWord(0, 4), ToWord(1, 4), ToWord(3, 4)},
        body \in {<<>>, <<0>>, <<5, 1>>, <<0, 0, 0>>}}
    \cup {<<86, 75, 66, 71>> \o ToWord(1, 4) \o ToWord(9, 8) \o ToWord(3, 4)
              \o <<0, 0, 0, 0, 5, 1>>,
          <<86, 75, 66, 70>> \o ToWord(2, 4) \o ToWord(9, 8) \o ToWord(3, 4)
              \o <<0, 0, 0, 0, 5, 1>>,
          <<86, 75, 66, 70>> \o ToWord(1, 4) \o ToWord(9, 8) \o ToWord(3, 4)
              \o <<0, 0, 0>>,
          <<86, 75, 66, 70>>}

\* Some bytes are taken for a dump.
BfCraft(bytes) ==
    /\ bfWire = <<>>
    /\ bfWire' = bytes
    /\ UNCHANGED <<bf, bfAdded, bfCopy, bfAsk>>
    /\ UNCHANGED <<walVars, blockVars, indexVars, sstVars, fmtVars, slVars, readVars, levelVars, retryVars, fileVars>>

\* What bf2.might_contain(key) can do on the filter Deserialize returned.
\* A filter without a single byte of bits reads bits_[byte] outside the
\* vector for whatever position it probes: the read may give either bit or
\* fault.
MightContainOutcomes(f, key) ==
    IF f.bits_ = <<>> /\ f.num_bits_ # ToWord(0, 8)
    THEN {[ub |-> TRUE, g |-> b] : b \in BOOLEAN}
    ELSE {[ub |-> FALSE, g |-> BloomFilterMightContain(f, key)]}

\* bf2.might_contain(key) on the filter read from the crafted bytes.
BfProbe(key) ==
    /\ bfCopy.status = "ok"
    /\ ~bfAsk.asked
    /\ \E o \in MightContainOutcomes(bfCopy.f, key) :
          bfAsk' = [asked |-> TRUE, key |-> key, ub |-> o.ub,
                    f |-> FALSE, g |-> o.g]
    /\ UNCHANGED <<bf, bfAdded, bfWire, bfCopy>>
    /\ UNCHANGED <<walVars, blockVars, indexVars, sstVars, fmtVars, slVars, readVars, levelVars, retryVars, fileVars>>

BloomLoadNext ==
    \/ \E bytes \in BloomDumps : BfCraft(bytes)
    \/ BfDeserialize
    \/ \E key \in {<<>>, <<97>>} : BfProbe(key)

\* ceil(m / 8) for a 64-bit word m, as a 64-bit word (at most 2^61).
CeilDiv8(m) ==
    WAdd(WShr(m, 3), ToWord(IF m[1] % 8 = 0 THEN 0 ELSE 1, 8))

\* C11: Deserialize accepts bytes with matching magic and version and
\* non-zero num_bits and num_hashes only if their length is exactly
\* 24 + ceil(num_bits / 8) for the 64-bit num_bits of the header, and
\* rejects every other length with the size-mismatch error; so the bit
\* array of every accepted filter covers the positions 0..num_bits-1, also
\* for num_bits within 7 of 2^64, and no lookup reads outside it.
C11_ExactSizeOrMismatch ==
    LET m == DecodeFixed64(bfWire, 8)
        wellFormed == /\ Len(bfWire) >= 24
                      /\ DecodeFixed32(bfWire, 0) = <<86, 75, 66, 70>>
                      /\ DecodeFixed32(bfWire, 4) = ToWord(1, 4)
                      /\ m # ToWord(0, 8)
                      /\ DecodeFixed32(bfWire, 16) # ToWord(0, 4)
        exact == ToWord(Len(bfWire), 8) = WAdd(ToWord(24, 8), CeilDiv8(m))
    IN  /\ (bfCopy.status # "none" /\ wellFormed) =>
              /\ bfCopy.status = "ok" <=> exact
              /\ ~exact => bfCopy.status = "BloomFilter: size mismatch"
        /\ bfCopy.status = "ok" =>
              ~WLt(WExt(ToWord(8 * Len(bfCopy.f.bits_), 8), 9),
                   bfCopy.f.num_bits_ \o <<0>>)
        /\ bfAsk.asked => ~bfAsk.ub

\* ------------------------------------------------------------------------
\* SkipList (skip_list.h)
\*
\* Node pointers are indices into the heap of the list's nodes; 0 is
\* nullptr.  A deleted node leaves a Freed cell behind, which new Node may
\* hand out again.  next_[i] of the source is next_[i + 1] here.
\* ------------------------------------------------------------------------

\* Node(lvl, k, v): lvl null forward pointers.
Node(lvl, k, v) ==
    [live |-> TRUE, key |-> k, value |-> v, next_ |-> [i \in 1..lvl |-> 0]]

Freed ==
    [live |-> FALSE, key |-> <<>>, value |-> <<>>, next_ |-> <<>>]

\* SkipList(max_level): the members after the constructor; head_ is the
\* first node of the heap.
SkipList(max_level) ==
    LET ml == IF max_level < 1 THEN 1 ELSE max_level
    IN  [max_level_ |-> ml, level_ |-> 1, size_ |-> 0, head_ |-> 1,
         heap |-> <<Node(ml, <<>>, <<>>)>>]

\* x->next_[i]
NextOf(s, x, i) ==
    s.heap[x].next_[i + 1]

\* x->next_[i] = y
SetNext(s, x, i, y) ==
    [s EXCEPT !.heap[x].next_[i + 1] = y]

\* The inner loop of the searches, never moving forward.
SkipToStay(s, x, i, target) ==
    x

RECURSIVE SkipTo(_, _, _, _)
\* while (x->next_[i] && x->next_[i]->key < target) x = x->next_[i];
SkipTo(s, x, i, target) ==
    IF NextOf(s, x, i) # 0 /\ StrLt(s.heap[NextOf(s, x, i)].key, target)
    THEN SkipTo(s, NextOf(s, x, i), i, target)
    ELSE x

RECURSIVE FindFrom(_, _, _, _, _)
\* for (i = level_ - 1; i >= 0; --i) { ...; update[i] = x; }  x = x->next_[0]
FindFrom(s, target, i, x, update) ==
    IF i < 0 THEN [x |-> NextOf(s, x, 0), update |-> update]
    ELSE LET y == SkipTo(s, x, i, target)
         IN  FindFrom(s, target, i - 1, y, [update EXCEPT ![i + 1] = y])

\* findGreaterOrEqualMut(target, update): the node returned and update[].
findGreaterOrEqualMut(s, target) ==
    FindFrom(s, target, s.level_ - 1, s.head_, [i \in 1..s.max_level_ |-> 0])

\* A search that returns the first node of the list.
findFirst(s, target) ==
    NextOf(s, s.head_, 0)

\* findGreaterOrEqual(target): the same descent without update[].
findGreaterOrEqual(s, target) ==
    findGreaterOrEqualMut(s, target).x

\* new Node: a cell not in use.
NewNode(s) ==
    LET free == {n \in 2..Len(s.heap) : ~s.heap[n].live}
    IN  IF free = {} THEN Len(s.heap) + 1
        ELSE CHOOSE n \in free : \A o \in free : n <= o

RECURSIVE Link(_, _, _, _, _)
\* for (i = 0; i < lvl; ++i) { n->next_[i] = update[i]->next_[i];
\*                             update[i]->next_[i] = n; }
Link(s, n, update, i, lvl) ==
    IF i >= lvl THEN s
    ELSE Link(SetNext(SetNext(s, n, i, NextOf(s, update[i + 1], i)),
                      update[i + 1], i, n),
              n, update, i + 1, lvl)

\* The tail shared by Insert and Put for a key that is not present: raise
\* level_, allocate the node, splice it in, ++size_.
SpliceNew(s, update, key, value, lvl) ==
    LET upd == [i \in 1..s.max_level_ |->
                   IF i - 1 >= s.level_ /\ i - 1 < lvl THEN s.head_
                   ELSE update[i]]
        n == NewNode(s)
        cell == Node(lvl, key, value)
        s1 == [s EXCEPT !.level_ = IF lvl > @ THEN lvl ELSE @,
                        !.heap = IF n > Len(@) THEN Append(@, cell)
                                 ELSE [@ EXCEPT ![n] = cell]]
    IN  [Link(s1, n, upd, 0, lvl) EXCEPT !.size_ = @ + 1]

\* Insert(key, value) that stores the new value in a node already holding
\* the key.
SkipListInsertOverwrite(s, key, value, lvl) ==
    LET r == findGreaterOrEqualMut(s, key)
    IN  IF r.x # 0 /\ s.heap[r.x].key = key
        THEN [ret |-> FALSE, s |-> [s EXCEPT !.heap[r.x].value = value]]
        ELSE [ret |-> TRUE, s |-> SpliceNew(s, r.update, key, value, lvl)]

\* Insert(key, value), lvl being what randomLevel() returns when called.
SkipListInsert(s, key, value, lvl) ==
    LET r == findGreaterOrEqualMut(s, key)
    IN  IF r.x # 0 /\ s.heap[r.x].key = key
        THEN [ret |-> FALSE, s |-> s]
        ELSE [ret |-> TRUE, s |-> SpliceNew(s, r.update, key, value, lvl)]

\* Put(key, value) that leaves the value of a present key alone.
SkipListPutKeep(s, key, value, lvl) ==
    SkipListInsert(s, key, value, lvl)

\* Put(key, value)
SkipListPut(s, key, value, lvl) ==
    LET r == findGreaterOrEqualMut(s, key)
    IN  IF r.x # 0 /\ s.heap[r.x].key = key
        THEN [ret |-> FALSE, s |-> [s EXCEPT !.heap[r.x].value = value]]
        ELSE [ret |-> TRUE, s |-> SpliceNew(s, r.update, key, value, lvl)]

\* The unlink loop of Erase repairing level 0 only.
UnlinkBottom(s, x, update, i) ==
    IF i = 0 /\ NextOf(s, update[1], 0) = x
    THEN SetNext(s, update[1], 0, NextOf(s, x, 0))
    ELSE s

RECURSIVE Unlink(_, _, _, _)
\* for (i = 0; i < level_; ++i)
\*     if (update[i]->next_[i] == x) update[i]->next_[i] = x->next_[i];
Unlink(s, x, update, i) ==
    IF i >= s.level_ THEN s
    ELSE Unlink(IF NextOf(s, update[i + 1], i) = x
                THEN SetNext(s, update[i + 1], i, NextOf(s, x, i))
                ELSE s,
                x, update, i + 1)

\* Erase's closing loop left out: level_ stays where the highest node ever
\* inserted put it.
ShrinkLevelNever(s) ==
    s

RECURSIVE ShrinkLevel(_)
\* while (level_ > 1 && head_->next_[level_ - 1] == nullptr) --level_;
ShrinkLevel(s) ==
    IF s.level_ > 1 /\ NextOf(s, s.head_, s.level_ - 1) = 0
    THEN ShrinkLevel([s EXCEPT !.level_ = @ - 1])
    ELSE s

\* Erase(key)
SkipListErase(s, key) ==
    LET r == findGreaterOrEqualMut(s, key)
        x == r.x
    IN  IF x = 0 \/ s.heap[x].key # key
        THEN [ret |-> FALSE, s |-> s]
        ELSE [ret |-> TRUE,
              s |-> ShrinkLevel([Unlink(s, x, r.update, 0)
                                    EXCEPT !.heap[x] = Freed,
                                           !.size_ = @ - 1])]

RECURSIVE DeleteChain(_, _)
\* Node* cur = head_->next_[0]; while (cur) { nxt = cur->next_[0];
\*                                            delete cur; cur = nxt; }
DeleteChain(heap, cur) ==
    IF cur = 0 THEN heap
    ELSE DeleteChain([heap EXCEPT ![cur] = Freed], heap[cur].next_[1])

\* Clear()
SkipListClear(s) ==
    [s EXCEPT !.heap = [DeleteChain(@, NextOf(s, s.head_, 0))
                           EXCEPT ![s.head_].next_ =
                               [i \in 1..s.max_level_ |-> 0]],
              !.level_ = 1,
              !.size_ = 0]

\* Begin()
SkipListBegin(s) ==
    NextOf(s, s.head_, 0)

\* Iterator::Next()
IteratorNext(s, node_) ==
    IF node_ # 0 THEN NextOf(s, node_, 0) ELSE node_

\* Iterator::Valid()
IteratorValid(node_) ==
    node_ # 0

\* Seek(target)
SkipListSeek(s, target) ==
    findGreaterOrEqual(s, target)

\* Contains(key)
SkipListContains(s, key) ==
    LET x == findGreaterOrEqual(s, key)
    IN  x # 0 /\ s.heap[x].key = key

\* Get(key, out_value): the return value and out_value afterwards.
SkipListGet(s, key, out_value) ==
    LET x == findGreaterOrEqual(s, key)
    IN  IF x # 0 /\ s.heap[x].key = key
        THEN [ret |-> TRUE, out_value |-> s.heap[x].value]
        ELSE [ret |-> FALSE, out_value |-> out_value]

\* ------------------------------------------------------------------------
\* SkipList: one list under Insert, Put, Erase, Clear and the lookups
\* ------------------------------------------------------------------------

\* max_level arguments of the constructor; values below 1 are raised to 1.
SlMaxLevels ==
    {0, 3}

SlKeys ==
    {<<>>, <<97>>, <<97, 98>>}

\* Targets of Seek, Contains and Get: the keys, one between two of them and
\* one above all.
SlTargets ==
    SlKeys \cup {<<97, 97>>, <<98>>}

NoOp ==
    [op |-> "none", key |-> <<>>, value |-> <<>>, ret |-> FALSE, at |-> <<>>,
     contains |-> FALSE, got |-> FALSE, out |-> <<>>]

SlInit(levels) ==
    /\ sl \in {SkipList(ml) : ml \in levels}
    /\ slMap = {}
    /\ slOp = NoOp

\* randomLevel(): any level from 1 to max_level_.
randomLevel(s) ==
    1..s.max_level_

\* list.Insert(key, value)
SlInsert(key, value) ==
    /\ \E lvl \in randomLevel(sl) :
          LET r == SkipListInsert(sl, key, value, lvl)
          IN  /\ sl' = r.s
              /\ slOp' = [op |-> "Insert", key |-> key, value |-> value,
                          ret |-> r.ret, at |-> <<>>,
                          contains |-> FALSE, got |-> FALSE, out |-> <<>>]
    /\ slMap' = IF \E e \in slMap : e.key = key THEN slMap
                ELSE slMap \cup {[key |-> key, value |-> value]}
    /\ UNCHANGED <<walVars, blockVars, indexVars, sstVars, fmtVars, bloomVars, readVars, levelVars, retryVars, fileVars>>

\* list.Put(key, value)
SlPut(key, value) ==
    /\ \E lvl \in randomLevel(sl) :
          LET r == SkipListPut(sl, key, value, lvl)
          IN  /\ sl' = r.s
              /\ slOp' = [op |-> "Put", key |-> key, value |-> value,
                          ret |-> r.ret, at |-> <<>>,
                          contains |-> FALSE, got |-> FALSE, out |-> <<>>]
    /\ slMap' = {e \in slMap : e.key # key}
                    \cup {[key |-> key, value |-> value]}
    /\ UNCHANGED <<walVars, blockVars, indexVars, sstVars, fmtVars, bloomVars, readVars, levelVars, retryVars, fileVars>>

\* list.Erase(key)
SlErase(key) ==
    /\ LET r == SkipListErase(sl, key)
       IN  /\ sl' = r.s
           /\ slOp' = [op |-> "Erase", key |-> key, value |-> <<>>,
                       ret |-> r.ret, at |-> <<>>,
                          contains |-> FALSE, got |-> FALSE, out |-> <<>>]
    /\ slMap' = {e \in slMap : e.key # key}
    /\ UNCHANGED <<walVars, blockVars, indexVars, sstVars, fmtVars, bloomVars, readVars, levelVars, retryVars, fileVars>>

\* list.Clear()
SlClear ==
    /\ sl' = SkipListClear(sl)
    /\ slOp' = [op |-> "Clear", key |-> <<>>, value |-> <<>>,
                ret |-> FALSE, at |-> <<>>,
                contains |-> FALSE, got |-> FALSE, out |-> <<>>]
    /\ slMap' = {}
    /\ UNCHANGED <<walVars, blockVars, indexVars, sstVars, fmtVars, bloomVars, readVars, levelVars, retryVars, fileVars>>

\* it = list.Seek(target); list.Contains(target); v = "?";
\* list.Get(target, v): three const calls on the same list.
SlLookup(target) ==
    /\ LET it == SkipListSeek(sl, target)
           g == SkipListGet(sl, target, <<63>>)
       IN  slOp' = [op |-> "Lookup", key |-> target,
                    value |-> IF IteratorValid(it) THEN sl.heap[it].value
                              ELSE <<>>,
                    ret |-> IteratorValid(it),
                    at |-> IF IteratorValid(it) THEN sl.heap[it].key
                           ELSE <<>>,
                    contains |-> SkipListContains(sl, target),
                    got |-> g.ret,
                    out |-> g.out_value]
    /\ UNCHANGED <<sl, slMap>>
    /\ UNCHANGED <<walVars, blockVars, indexVars, sstVars, fmtVars, bloomVars, readVars, levelVars, retryVars, fileVars>>

SlNext ==
    \/ \E key \in SlKeys : SlInsert(key, <<1>>)
    \/ \E key \in SlKeys : SlPut(key, <<2>>)
    \/ \E key \in SlKeys : SlErase(key)
    \/ SlClear
    \/ \E target \in SlTargets : SlLookup(target)

RECURSIVE Iterate(_, _)
\* for (; it.Valid(); it.Next()): the nodes visited.
Iterate(s, it) ==
    IF ~IteratorValid(it) THEN <<>>
    ELSE <<it>> \o Iterate(s, IteratorNext(s, it))

\* The entries an iteration from Begin() visits.
Entries(s) ==
    LET walk == Iterate(s, SkipListBegin(s))
    IN  {[key |-> s.heap[walk[i]].key, value |-> s.heap[walk[i]].value] :
            i \in 1..Len(walk)}

RECURSIVE LevelChain(_, _, _)
\* The nodes after x along the forward links of level i.
LevelChain(s, x, i) ==
    IF NextOf(s, x, i) = 0 THEN <<>>
    ELSE <<NextOf(s, x, i)>> \o LevelChain(s, NextOf(s, x, i), i)

\* The keys of a sequence of nodes are strictly increasing.
Ascending(s, nodes) ==
    \A i \in 1..(Len(nodes) - 1) :
        StrLt(s.heap[nodes[i]].key, s.heap[nodes[i + 1]].key)

\* No forward link of a node in use refers to a deleted node.
NoDangling(s) ==
    \A n \in 1..Len(s.heap) :
        s.heap[n].live =>
            \A i \in 1..Len(s.heap[n].next_) :
                s.heap[n].next_[i] = 0 \/ s.heap[s.heap[n].next_[i]].live

\* C12: after any sequence of Insert, Put, Erase and Clear, iterating from
\* Begin() with Next() until Valid() is false visits every key that is in
\* the list exactly once, in strictly ascending order, as many entries as
\* size() says; and at every level the keys along the forward links are
\* strictly increasing.
C12_OrderedIteration ==
    LET walk == Iterate(sl, SkipListBegin(sl))
    IN  /\ Ascending(sl, walk)
        /\ {sl.heap[walk[i]].key : i \in 1..Len(walk)} = {e.key : e \in slMap}
        /\ Len(walk) = Cardinality(slMap)
        /\ Len(walk) = sl.size_
        /\ \A i \in 0..(sl.max_level_ - 1) :
              Ascending(sl, LevelChain(sl, sl.head_, i))

\* Three keys are in a list of three levels, the largest of them in the
\* first node allocated; the smallest came in last, by Insert, into the
\* cell of a node erased before.
C12_Witness ==
    /\ sl.size_ = 3
    /\ sl.level_ = 3
    /\ Len(sl.heap) = 4
    /\ sl.heap[2].key = <<97, 98>>
    /\ sl.heap[3].key = <<>>
    /\ sl.heap[4].key = <<97>>
    /\ slOp.op = "Insert" /\ slOp.ret /\ slOp.key = <<>>

\* C13: Seek(t) is positioned at the entry with the smallest key >= t and is
\* invalid exactly when there is no such entry; Contains(t) and Get(t)
\* succeed exactly when that entry's key is t, and Get copies its value.
C13_SeekFirstGreaterOrEqual ==
    slOp.op = "Lookup" =>
        LET t == slOp.key
            ge == {e \in slMap : StrLe(t, e.key)}
            hit == slOp.ret /\ slOp.at = t
        IN  /\ slOp.ret <=> ge # {}
            /\ slOp.ret =>
                  \E e \in ge : /\ \A o \in ge : StrLe(e.key, o.key)
                                /\ slOp.at = e.key
                                /\ slOp.value = e.value
            /\ (\E e \in slMap : e.key = t) <=> hit
            /\ slOp.contains <=> hit
            /\ slOp.got <=> hit
            /\ slOp.got => slOp.out = slOp.value

\* A target between two keys of a multi-level list was looked up: Seek
\* stands on the key after it, Contains and Get fail.
C13_Witness ==
    /\ slOp.op = "Lookup"
    /\ slOp.key = <<97, 97>>
    /\ slOp.ret /\ slOp.at = <<97, 98>> /\ slOp.value = <<2>>
    /\ ~slOp.contains /\ ~slOp.got
    /\ sl.size_ = 3 /\ sl.level_ >= 2

\* C14: on a key that is not present, Insert and Put add the entry, return
\* true and increase size() by one; on a present key Insert returns false
\* and changes nothing, Put returns false, replaces that key's value and
\* leaves size() and every other entry as they were.
C14_DuplicateKeyContract ==
    [][slOp'.op \in {"Insert", "Put"} =>
          LET k == slOp'.key
              new == [key |-> k, value |-> slOp'.value]
              before == Entries(sl)
              after == Entries(sl')
              present == \E e \in before : e.key = k
          IN  /\ ~present =>
                    /\ slOp'.ret
                    /\ sl'.size_ = sl.size_ + 1
                    /\ after = before \cup {new}
              /\ (present /\ slOp'.op = "Insert") =>
                    /\ ~slOp'.ret
                    /\ sl' = sl
              /\ (present /\ slOp'.op = "Put") =>
                    /\ ~slOp'.ret
                    /\ sl'.size_ = sl.size_
                    /\ after = {e \in before : e.key # k} \cup {new}]_vars

\* Put has overwritten the value of one of three keys; the others still
\* carry the value Insert gave them.
C14_Witness ==
    /\ slOp.op = "Put" /\ ~slOp.ret /\ slOp.key = <<97>>
    /\ sl.size_ = 3
    /\ Entries(sl) = {[key |-> <<>>, value |-> <<1>>],
                      [key |-> <<97>>, value |-> <<2>>],
                      [key |-> <<97, 98>>, value |-> <<1>>]}

\* C15: Erase(k) on a present key returns true, decreases size() by one,
\* leaves no forward link at any level on the erased node and keeps every
\* other entry retrievable and in order; Erase(k) on an absent key returns
\* false and changes nothing.
C15_EraseUnlinks ==
    [][slOp'.op = "Erase" =>
          LET k == slOp'.key
              before == Entries(sl)
              after == Entries(sl')
              present == \E e \in before : e.key = k
          IN  /\ present =>
                    /\ slOp'.ret
                    /\ sl'.size_ = sl.size_ - 1
                    /\ NoDangling(sl')
                    /\ after = {e \in before : e.key # k}
                    /\ \A i \in 0..(sl.max_level_ - 1) :
                          Ascending(sl', LevelChain(sl', sl'.head_, i))
                    /\ \A e \in after :
                          SkipListGet(sl', e.key, <<63>>) =
                              [ret |-> TRUE, out_value |-> e.value]
              /\ ~present =>
                    /\ ~slOp'.ret
                    /\ sl' = sl]_vars

\* The middle one of three keys was erased from a list of three levels.
C15_Witness ==
    /\ slOp.op = "Erase" /\ slOp.ret /\ slOp.key = <<97>>
    /\ sl.size_ = 2
    /\ sl.level_ = 3
    /\ \E n \in 2..Len(sl.heap) : ~sl.heap[n].live

\* The height of node n: the number of its forward links.
HeightOf(s, n) ==
    Len(s.heap[n].next_)

\* The members of a sequence.
Members(seq) ==
    {seq[i] : i \in 1..Len(seq)}

\* C29: in every state reachable by Insert, Put, Erase and Clear,
\* 1 <= level_ <= max_level_; the head's forward link is null at every level
\* from level_ up; if level_ > 1 the head's link at level_ - 1 is not null;
\* a node of height h is linked at exactly the levels 0..h-1, so the chain
\* of every level is a subsequence of the chain one level below; and size()
\* is the number of nodes on the chain of level 0.
C29_StructuralInvariant ==
    LET bottom == LevelChain(sl, sl.head_, 0)
    IN  /\ 1 <= sl.level_ /\ sl.level_ <= sl.max_level_
        /\ HeightOf(sl, sl.head_) = sl.max_level_
        /\ \A i \in sl.level_..(sl.max_level_ - 1) :
               NextOf(sl, sl.head_, i) = 0
        /\ sl.level_ > 1 => NextOf(sl, sl.head_, sl.level_ - 1) # 0
        /\ \A i \in 0..(sl.max_level_ - 1) :
               LET chain == LevelChain(sl, sl.head_, i)
               IN  /\ Members(chain) =
                          {n \in Members(bottom) : i < HeightOf(sl, n)}
                   /\ chain = SelectSeq(bottom, LAMBDA n : i < HeightOf(sl, n))
                   /\ i > 0 =>
                          chain = SelectSeq(LevelChain(sl, sl.head_, i - 1),
                                            LAMBDA n : i < HeightOf(sl, n))
        /\ \A n \in Members(bottom) :
               /\ sl.heap[n].live
               /\ 1 <= HeightOf(sl, n) /\ HeightOf(sl, n) <= sl.level_
        /\ sl.size_ = Len(bottom)

\* An Erase took the only node of height 3 out of a list that keeps a node
\* of height 2 and one of height 1: level_ came down from 3 to 2.
C29_Witness ==
    /\ slOp.op = "Erase" /\ slOp.ret
    /\ sl.max_level_ = 3 /\ sl.level_ = 2 /\ sl.size_ = 2
    /\ {HeightOf(sl, n) : n \in Members(LevelChain(sl, sl.head_, 0))} = {1, 2}
    /\ NextOf(sl, sl.head_, 2) = 0

\* The key is present in the ordered map.
MapHas(map, key) ==
    \E e \in map : e.key = key

\* The value the ordered map holds for a present key.
MapAt(map, key) ==
    (CHOOSE e \in map : e.key = key).value

\* C30: whatever levels randomLevel() returns, the list behaves as an
\* ordered map: size() and the sequence an iteration yields are those of the
\* map in every state, and every Insert, Put, Erase, Contains, Get and Seek
\* returns what the map returns; the level choices are not observable.
C30_RefinesSortedMap ==
    /\ [](LET nodes == Iterate(sl, SkipListBegin(sl))
              walk == [i \in 1..Len(nodes) |->
                          [key |-> sl.heap[nodes[i]].key,
                           value |-> sl.heap[nodes[i]].value]]
          IN  /\ sl.size_ = Cardinality(slMap)
              /\ Len(walk) = Cardinality(slMap)
              /\ Members(walk) = slMap
              /\ \A i \in 1..(Len(walk) - 1) :
                     StrLt(walk[i].key, walk[i + 1].key))
    /\ [][/\ slOp'.op \in {"Insert", "Put"} =>
              /\ slOp'.ret = ~MapHas(slMap, slOp'.key)
              /\ MapHas(slMap', slOp'.key)
              /\ \A e \in slMap' : e.key # slOp'.key => e \in slMap
              /\ \A e \in slMap : e.key # slOp'.key => e \in slMap'
              /\ MapAt(slMap', slOp'.key) =
                     IF slOp'.op = "Insert" /\ MapHas(slMap, slOp'.key)
                     THEN MapAt(slMap, slOp'.key) ELSE slOp'.value
          /\ slOp'.op = "Erase" =>
              /\ slOp'.ret = MapHas(slMap, slOp'.key)
              /\ slMap' = {e \in slMap : e.key # slOp'.key}
          /\ slOp'.op = "Clear" => slMap' = {}
          /\ slOp'.op = "Lookup" =>
              /\ slMap' = slMap
              /\ slOp'.contains = MapHas(slMap, slOp'.key)
              /\ slOp'.got = MapHas(slMap, slOp'.key)
              /\ slOp'.out = IF MapHas(slMap, slOp'.key)
                             THEN MapAt(slMap, slOp'.key) ELSE <<63>>
              /\ slOp'.ret =
                     (\E e \in slMap : ~StrLt(e.key, slOp'.key))
              /\ slOp'.ret =>
                     /\ [key |-> slOp'.at, value |-> slOp'.value] \in slMap
                     /\ ~StrLt(slOp'.at, slOp'.key)
                     /\ \A e \in slMap : ~StrLt(e.key, slOp'.key) =>
                            ~StrLt(e.key, slOp'.at)]_vars

\* An Insert of a present key returned false on a list of three nodes of
\* three different heights whose value for that key came from an earlier
\* Put.
C30_Witness ==
    /\ slOp.op = "Insert" /\ ~slOp.ret
    /\ [key |-> slOp.key, value |-> <<2>>] \in slMap
    /\ sl.size_ = 3
    /\ {HeightOf(sl, n) : n \in Members(LevelChain(sl, sl.head_, 0))}
           = {1, 2, 3}

\* ------------------------------------------------------------------------
\* Stored blocks: bytes read back from a file are opened and searched
\* ------------------------------------------------------------------------

\* One entry of a data block as it lies in the block.
RawEntry(shared, nonshared, vlen, bytes) ==
    PutFixed32(PutFixed32(PutFixed32(<<>>, shared), nonshared), vlen) \o bytes

\* A block: an entries region followed by a table of offsets and its count.
RawBlock(entries, offs) ==
    PutFixed32(PutOffsets(entries, offs), Len(offs))

\* The entry "a" -> "1", 14 bytes long.
EntryA ==
    RawEntry(0, 1, 1, <<97, 49>>)

\* A data block found in a file, with the structural defect it carries and
\* the keys whose lookup comes upon that defect.
DataBlockOnDisk(bytes, defect, probes) ==
    [kind |-> "data", bytes |-> bytes, defect |-> defect, probes |-> probes]

\* An index block found in a file, likewise.
IndexBlockOnDisk(bytes, defect, probes) ==
    [kind |-> "index", bytes |-> bytes, defect |-> defect, probes |-> probes]

\* The keys looked up in a stored block.
RdKeys ==
    {<<>>, <<97>>, <<97, 98>>, <<98>>, <<122>>}

\* The keys above "a".
AboveA ==
    {k \in RdKeys : StrLt(<<97>>, k)}

RECURSIVE IndexBlockOf(_, _)
\* The block an IndexBlockBuilder returns from Finish after the Adds of seq.
IndexBlockOf(seq, b) ==
    IF seq = <<>> THEN IndexBlockBuilderFinish(b).buffer_
    ELSE IndexBlockOf(Tail(seq),
                      IndexBlockBuilderAdd(b, seq[1].key, seq[1].handle).b)

\* A handle for the entries of stored index blocks.
SomeHandle ==
    [offset |-> ToWord(4096, 8), size |-> ToWord(100, 8)]

\* One entry of an index block as it lies in the block.
RawDivider(key) ==
    BlockHandleEncodeTo(SomeHandle, PutVarint32(<<>>, Len(key)) \o key)

StoredDataBlocks ==
    {\* written by a builder: two entries in one run, and in two runs
     DataBlockOnDisk(RawBlock(EntryA \o RawEntry(1, 1, 0, <<98>>), <<0>>),
                     "none", {}),
     DataBlockOnDisk(RawBlock(EntryA \o RawEntry(0, 1, 1, <<98, 50>>),
                              <<0, 14>>), "none", {}),
     \* an empty builder's block, and a block without restart points
     DataBlockOnDisk(RawBlock(<<>>, <<0>>), "none", {}),
     DataBlockOnDisk(RawBlock(<<>>, <<>>), "none", {}),
     \* five bytes where an entry header of twelve is due
     DataBlockOnDisk(RawBlock(<<0, 0, 0, 0, 1>>, <<0>>), "header", RdKeys),
     DataBlockOnDisk(RawBlock(EntryA \o <<0, 0, 0, 0, 1>>, <<0>>),
                     "header", AboveA),
     \* the entry at the second restart point shares a byte
     DataBlockOnDisk(RawBlock(EntryA \o RawEntry(1, 1, 0, <<98>>), <<0, 14>>),
                     "restart", RdKeys),
     \* an entry shares five bytes with the one-byte key before it, or with
     \* no key before it
     DataBlockOnDisk(RawBlock(EntryA \o RawEntry(5, 1, 0, <<98>>), <<0>>),
                     "shared", AboveA),
     DataBlockOnDisk(RawBlock(RawEntry(1, 1, 0, <<98>>), <<0>>),
                     "shared", RdKeys),
     \* an entry declares nine value bytes and has one, or 2^32 - 1 key bytes
     DataBlockOnDisk(RawBlock(RawEntry(0, 1, 9, <<97, 49>>), <<0>>),
                     "extent", RdKeys),
     DataBlockOnDisk(RawBlock(EntryA \o <<0, 0, 0, 0, 255, 255, 255, 255,
                                          0, 0, 0, 0, 98>>, <<0>>),
                     "extent", AboveA),
     \* the second restart offset is 2^32 - 8
     DataBlockOnDisk(EntryA \o <<0, 0, 0, 0, 248, 255, 255, 255, 2, 0, 0, 0>>,
                     "wrap", RdKeys),
     \* the trailer is cut short or declares more restarts than fit
     DataBlockOnDisk(<<1, 0, 0>>, "trailer", RdKeys),
     DataBlockOnDisk(<<>>, "trailer", RdKeys),
     DataBlockOnDisk(<<1, 0, 0, 0>>, "trailer", RdKeys),
     DataBlockOnDisk(<<0, 0, 0, 0, 0, 0, 0, 64>>, "trailer", RdKeys),
     DataBlockOnDisk(<<0, 0, 0, 0, 255, 255, 255, 255>>, "trailer", RdKeys),
     DataBlockOnDisk(EntryA \o <<0, 0, 0, 0, 232, 3, 0, 0>>, "trailer",
                     RdKeys)}

StoredIndexBlocks ==
    {\* written by a builder: no, one, two and three dividers
     IndexBlockOnDisk(IndexBlockOf(<<>>, IndexBlockBuilder), "none", {}),
     IndexBlockOnDisk(IndexBlockOf(<<[key |-> <<97>>, handle |-> SomeHandle]>>,
                                   IndexBlockBuilder), "none", {}),
     IndexBlockOnDisk(IndexBlockOf(<<[key |-> <<>>, handle |-> SomeHandle],
                                     [key |-> <<97, 98>>,
                                      handle |-> NoHandle]>>,
                                   IndexBlockBuilder), "none", {}),
     IndexBlockOnDisk(IndexBlockOf(<<[key |-> <<97>>, handle |-> NoHandle],
                                     [key |-> <<97, 98>>,
                                      handle |-> SomeHandle],
                                     [key |-> <<98>>, handle |-> SomeHandle]>>,
                                   IndexBlockBuilder), "none", {}),
     \* a key length whose varint never ends
     IndexBlockOnDisk(RawBlock(<<128, 128>>, <<0>>), "varint", RdKeys),
     IndexBlockOnDisk(RawBlock(RawDivider(<<97>>) \o <<255>>, <<0, 18>>),
                      "varint", RdKeys),
     \* a key of one byte and a handle of three
     IndexBlockOnDisk(RawBlock(<<1, 97, 0, 0, 0>>, <<0>>), "short", RdKeys),
     IndexBlockOnDisk(RawBlock(RawDivider(<<97>>) \o <<1, 98, 0, 0, 0>>,
                               <<0, 18>>), "short", RdKeys),
     \* fewer than four bytes
     IndexBlockOnDisk(<<>>, "small", RdKeys),
     IndexBlockOnDisk(<<97, 98, 99>>, "small", RdKeys),
     \* a count of entries whose offset table does not fit
     IndexBlockOnDisk(<<1, 0, 0, 0>>, "count", RdKeys),
     IndexBlockOnDisk(<<97, 0, 0, 0, 0, 232, 3, 0, 0>>, "count", RdKeys),
     IndexBlockOnDisk(RawDivider(<<97>>) \o <<0, 0, 0, 0, 6, 0, 0, 0>>,
                      "count", RdKeys),
     IndexBlockOnDisk(<<0, 0, 0, 0, 255, 255, 255, 255>>, "count", RdKeys),
     \* offsets that decrease
     IndexBlockOnDisk(RawBlock(RawDivider(<<97>>) \o RawDivider(<<98>>),
                               <<18, 0>>), "order", RdKeys),
     \* an offset beyond the entries region, by one byte and by many
     IndexBlockOnDisk(RawBlock(RawDivider(<<97>>), <<0, 19>>), "range",
                      RdKeys),
     IndexBlockOnDisk(RawDivider(<<97>>) \o <<0, 0, 0, 0, 255, 255, 255, 255,
                                             2, 0, 0, 0>>, "range", RdKeys),
     \* an offset at the end of the entries region, where no entry starts
     IndexBlockOnDisk(RawBlock(RawDivider(<<97>>), <<0, 18>>), "range",
                      RdKeys),
     IndexBlockOnDisk(RawBlock(<<>>, <<0>>), "range", RdKeys)}

NoBlock ==
    [kind |-> "none", bytes |-> <<>>, defect |-> "none", probes |-> {}]

ReadInit ==
    /\ rdBlock = NoBlock
    /\ rdGot = [asked |-> FALSE, res |-> NoGot]

\* The bytes of a block are read from the file.
RdOpen(block) ==
    /\ rdBlock = NoBlock
    /\ rdBlock' = block
    /\ UNCHANGED rdGot
    /\ UNCHANGED <<walVars, blockVars, indexVars, sstVars, fmtVars, bloomVars,
                   slVars, levelVars, retryVars, fileVars>>

\* DataBlockReader r(bytes); r.Get(key, v)
RdGet(key) ==
    /\ rdBlock.kind = "data"
    /\ ~rdGot.asked
    /\ \E res \in ReadDataBlock(rdBlock.bytes, key) :
          rdGot' = [asked |-> TRUE, res |-> res]
    /\ UNCHANGED rdBlock
    /\ UNCHANGED <<walVars, blockVars, indexVars, sstVars, fmtVars, bloomVars,
                   slVars, levelVars, retryVars, fileVars>>

\* IndexBlockReader r(bytes); r.Find(key, h)
RdFind(key) ==
    /\ rdBlock.kind = "index"
    /\ ~rdGot.asked
    /\ rdGot' = [asked |-> TRUE, res |-> ReadIndexBlock(rdBlock.bytes, key)]
    /\ UNCHANGED rdBlock
    /\ UNCHANGED <<walVars, blockVars, indexVars, sstVars, fmtVars, bloomVars,
                   slVars, levelVars, retryVars, fileVars>>

ReadNext ==
    \/ \E block \in StoredDataBlocks \cup StoredIndexBlocks : RdOpen(block)
    \/ \E key \in RdKeys : RdGet(key)
    \/ \E key \in RdKeys : RdFind(key)

\* C19: lookups tell corruption from absence.  When Get comes upon an entry
\* header with fewer than 12 bytes left, a restart entry with shared # 0, a
\* shared length above the length of the key before, or an entry reaching
\* past the entries region, and when Find comes upon a key length with a
\* malformed varint or an entry with fewer than key_len + 16 bytes left,
\* the call ends with an error and not with a not-found result.
C19_CorruptionIsNotAbsence ==
    (/\ rdGot.asked
     /\ rdBlock.defect \in {"header", "restart", "shared", "extent",
                            "varint", "short"}
     /\ rdGot.res.key \in rdBlock.probes) =>
        ~(rdGot.res.status = "ok" /\ ~rdGot.res.found)

\* The trailer of an index block as the format defines it: at least four
\* bytes, a count num with 4 + 4 * num <= length, and num offsets that do
\* not decrease and each lie within the entries region, the bytes before
\* the offset table.
TrailerWellFormed(block) ==
    /\ Len(block) >= 4
    /\ LET num == DecodeFixed32(block, Len(block) - 4)
       IN  /\ ~WLt(ToWord((Len(block) - 4) \div 4, 4), num)
           /\ LET limit == Len(block) - 4 - 4 * WNum(num)
                  offs  == ReadOffsets(block, limit, WNum(num))
              IN  \A i \in 1..Len(offs) :
                      /\ i > 1 => ~WLt(offs[i], offs[i - 1])
                      /\ WLt(offs[i], ToWord(limit, 4))

\* C20: the IndexBlockReader constructor validates the trailer up front.
\* It rejects a block shorter than 4 bytes, a count num with 4 + 4 * num
\* above the block length, an offset table that decreases somewhere and an
\* offset that does not lie within the entries region; it accepts every
\* other block, the blocks IndexBlockBuilder::Finish() returns among them.
C20_IndexTrailerValidated ==
    rdBlock.kind = "index" =>
        (IndexBlockReader(rdBlock.bytes).status = "ok"
            <=> TrailerWellFormed(rdBlock.bytes))

\* The count at the end of a block fits: at least four bytes, and a count
\* num with 4 + 4 * num <= length.
CountFits(block) ==
    /\ Len(block) >= 4
    /\ ~WLt(ToWord((Len(block) - 4) \div 4, 4),
            DecodeFixed32(block, Len(block) - 4))

\* C21: the DataBlockReader constructor rejects a block shorter than 4
\* bytes and a count num_restarts with 4 + 4 * num_restarts above the block
\* length; otherwise it accepts the block with the entries region
\* block[0 .. len - 4 - 4 * num_restarts] and the restart table behind it.
\* On an accepted block with num_restarts = 0, and on the block an empty
\* builder's Finish() returns, every Get returns not-found.
C21_DataTrailerValidated ==
    rdBlock.kind = "data" =>
        LET block == rdBlock.bytes
            r     == DataBlockReader(block)
            num   == WNum(DecodeFixed32(block, Len(block) - 4))
        IN  /\ r.status = "ok" <=> CountFits(block)
            /\ r.status = "ok" =>
                  /\ r.entries_ = Take(block, Len(block) - 4 - 4 * num)
                  /\ Len(r.restarts_) = num
                  /\ \A i \in 1..num :
                        r.restarts_[i] =
                            DecodeFixed32(block, Len(r.entries_) + 4 * (i - 1))
            /\ ((r.status = "ok" /\ num = 0)
                  \/ block = DataBlockBuilderFinish(DataBlockBuilder(16)).buffer_)
                 => /\ r.status = "ok"
                    /\ \A key \in RdKeys :
                          ReadDataBlock(block, key) =
                              {[key |-> key, status |-> "ok",
                                found |-> FALSE, value |-> <<>>]}
                    /\ rdGot.asked =>
                          rdGot.res.status = "ok" /\ ~rdGot.res.found
            /\ (rdGot.asked /\ ~CountFits(block)) =>
                  rdGot.res.status \in {"DataBlockReader: block too small",
                                        "DataBlockReader: corrupt"}

\* A block of four zero bytes, which declares no restart point, was opened
\* and a key was looked up in it.
C21_Witness ==
    /\ rdBlock.kind = "data"
    /\ rdBlock.bytes = <<0, 0, 0, 0>>
    /\ rdGot.asked
    /\ rdGot.res.key = <<97>>
    /\ ~rdGot.res.found

\* C24: Get is safe on every block the DataBlockReader constructor
\* accepts, whatever 32-bit values its restart offsets hold: for every key
\* it reads only bytes of the entries region and returns found or
\* not-found; off + 12 never wraps so that a header is read outside.
C24_GetStaysInBounds ==
    rdBlock.kind = "data" =>
        LET r == DataBlockReader(rdBlock.bytes)
        IN  /\ r.status = "ok" =>
                  \A key \in RdKeys : ~DataBlockReaderGet(r, key).ub
            /\ rdGot.asked => rdGot.res.status # "crash"

\* ------------------------------------------------------------------------
\* Layout of a data block
\* ------------------------------------------------------------------------

\* The i-th entry (1-based) of a block with restart interval r as the format
\* lays it out: the entries 1, r + 1, 2r + 1, ... carry their full key,
\* every other entry the part of its key behind the longest prefix it has
\* in common with the key before.
LayoutEntry(added, i, r) ==
    LET key    == added[i].key
        shared == IF (i - 1) % r = 0 THEN 0
                  ELSE SharedPrefix(added[i - 1].key, key)
    IN  RawEntry(shared, Len(key) - shared, Len(added[i].value),
                 Drop(key, shared) \o added[i].value)

RECURSIVE LayoutEntries(_, _, _)
\* The entries region holding the first n entries.
LayoutEntries(added, n, r) ==
    IF n = 0 THEN <<>>
    ELSE LayoutEntries(added, n - 1, r) \o LayoutEntry(added, n, r)

\* The restart table: the offsets of the entries 1, r + 1, 2r + 1, ...
LayoutRestarts(added, r) ==
    IF added = <<>> THEN <<0>>
    ELSE [j \in 1..((Len(added) + r - 1) \div r) |->
             Len(LayoutEntries(added, (j - 1) * r, r))]

\* C25: for a restart interval r >= 1 and the accepted entries, the buffer
\* holds the entries in order, the entries 0, r, 2r, ... with shared = 0 and
\* their full key and every other entry with shared equal to the longest
\* common prefix with the key before; the restart table is exactly the
\* offsets of the entries 0, r, 2r, ... (the first 0, strictly increasing,
\* ceil(n / r) of them), and Finish() appends that table and its count.
C25_RestartLayout ==
    LET r       == db.restart_interval_
        entries == LayoutEntries(dbAdded, Len(dbAdded), r)
        table   == LayoutRestarts(dbAdded, r)
    IN  /\ db.restarts_ = table
        /\ table[1] = 0
        /\ \A j \in 1..(Len(table) - 1) : table[j] < table[j + 1]
        /\ db.counter_ <= r
        /\ db.buffer_ = IF db.finished_ THEN RawBlock(entries, table)
                        ELSE entries

\* With restart interval 2, five entries were added and the block was
\* finished: three restart points.
C25_Witness ==
    /\ db.restart_interval_ = 2
    /\ Len(dbAdded) = 5
    /\ Len(db.restarts_) = 3
    /\ db.finished_
    /\ dbStatus = "ok"

\* C26, as claimed: on a builder whose Finish() has not been called,
\* CurrentSize() returns buffer length + (number of restarts + 1) * 4, an
\* upper bound on the length of the block Finish() would return at that
\* moment, which it over-estimates by one restart slot (4 bytes).
C26_CurrentSizeOverEstimates ==
    ~db.finished_ =>
        LET size  == DataBlockBuilderCurrentSize(db)
            block == DataBlockBuilderFinish(db).buffer_
        IN  /\ size = Len(db.buffer_) + (Len(db.restarts_) + 1) * 4
            /\ size >= Len(block)
            /\ size = Len(block) + 4

\* C26, amended: on a builder whose Finish() has not been called,
\* CurrentSize() returns buffer length + (number of restarts + 1) * 4, and
\* that is exactly the length of the block Finish() would return at that
\* moment: the restart offsets take 4 bytes each and their count the
\* remaining 4.
C26_CurrentSizeExact ==
    ~db.finished_ =>
        LET size  == DataBlockBuilderCurrentSize(db)
            block == DataBlockBuilderFinish(db).buffer_
        IN  /\ size = Len(db.buffer_) + (Len(db.restarts_) + 1) * 4
            /\ size = Len(block)

\* Three entries in two runs, Finish() not yet called.
C26_Witness ==
    /\ ~db.finished_
    /\ Len(dbAdded) = 3
    /\ Len(db.restarts_) = 2
    /\ db.buffer_ # <<>>

\* ------------------------------------------------------------------------
\* SkipList: construction parameters and the level chooser
\* ------------------------------------------------------------------------

\* What std::uniform_int_distribution<int>(0, b) delivers when b < 0, which
\* its precondition a <= b excludes: any int.
AnyDraws ==
    {-7, -1, 0, 1, 2, 3, 9}

\* A constructor that builds the distribution from the clamped denominator.
SkipListConfigClamped(max_level, p_numerator, p_denominator) ==
    LET bad == p_denominator <= 1 \/ p_numerator < 1
                 \/ p_numerator >= p_denominator
    IN  [max_level_ |-> IF max_level < 1 THEN 1 ELSE max_level,
         p_num_     |-> IF bad THEN 1 ELSE p_numerator,
         p_den_     |-> IF bad THEN 4 ELSE p_denominator,
         dist_      |-> IF bad THEN 0..3 ELSE 0..(p_denominator - 1),
         ub         |-> FALSE]

\* SkipList(max_level, p_numerator, p_denominator): the configuration
\* members after the constructor.  dist_ is the set of values dist_(rng_)
\* delivers; it is built from the parameter p_denominator, before the
\* constructor's body runs.
SkipListConfig(max_level, p_numerator, p_denominator) ==
    LET bad == p_denominator <= 1 \/ p_numerator < 1
                 \/ p_numerator >= p_denominator
    IN  [max_level_ |-> IF max_level < 1 THEN 1 ELSE max_level,
         p_num_     |-> IF bad THEN 1 ELSE p_numerator,
         p_den_     |-> IF bad THEN 4 ELSE p_denominator,
         dist_      |-> IF p_denominator - 1 < 0 THEN AnyDraws
                        ELSE 0..(p_denominator - 1),
         ub         |-> p_denominator - 1 < 0]

\* The max_level arguments and the (p_numerator, p_denominator) arguments a
\* list is constructed with.
LvMaxLevels ==
    {-1, 0, 1, 3}

LvFractions ==
    {<<1, 4>>, <<1, 2>>, <<3, 4>>, <<2, 10>>,
     <<0, 4>>, <<4, 4>>, <<20, 10>>, <<1, 1>>, <<1, 0>>, <<1, -3>>, <<-1, 4>>}

\* No list has been constructed.
LevelInit ==
    lv = [built |-> FALSE, args |-> <<16, 1, 4>>,
          cfg |-> SkipListConfig(16, 1, 4), lvl |-> 0, draw |-> 0, ret |-> 0]

\* SkipList list(max_level, p_numerator, p_denominator)
LvConstruct(max_level, p_numerator, p_denominator) ==
    /\ ~lv.built
    /\ lv' = [lv EXCEPT !.built = TRUE,
                        !.args = <<max_level, p_numerator, p_denominator>>,
                        !.cfg = SkipListConfig(max_level, p_numerator,
                                               p_denominator)]
    /\ UNCHANGED <<walVars, blockVars, indexVars, sstVars, fmtVars, bloomVars,
                   slVars, readVars, retryVars, fileVars>>

\* randomLevel() is entered: int lvl = 1.
LvCall ==
    /\ lv.built
    /\ lv.lvl = 0
    /\ lv' = [lv EXCEPT !.lvl = 1, !.ret = 0]
    /\ UNCHANGED <<walVars, blockVars, indexVars, sstVars, fmtVars, bloomVars,
                   slVars, readVars, retryVars, fileVars>>

\* One test of the loop condition with lvl < max_level_: dist_(rng_)
\* delivers d; ++lvl when d < p_num_, return lvl otherwise.
LvDraw(d) ==
    /\ lv.lvl > 0
    /\ lv.lvl < lv.cfg.max_level_
    /\ d \in lv.cfg.dist_
    /\ lv' = IF d < lv.cfg.p_num_
             THEN [lv EXCEPT !.lvl = lv.lvl + 1, !.draw = d]
             ELSE [lv EXCEPT !.lvl = 0, !.draw = d, !.ret = lv.lvl]
    /\ UNCHANGED <<walVars, blockVars, indexVars, sstVars, fmtVars, bloomVars,
                   slVars, readVars, retryVars, fileVars>>

\* The loop condition fails on lvl < max_level_: return lvl.
LvReturn ==
    /\ lv.lvl > 0
    /\ lv.lvl >= lv.cfg.max_level_
    /\ lv' = [lv EXCEPT !.lvl = 0, !.ret = lv.lvl]
    /\ UNCHANGED <<walVars, blockVars, indexVars, sstVars, fmtVars, bloomVars,
                   slVars, readVars, retryVars, fileVars>>

LevelNext ==
    \/ \E ml \in LvMaxLevels, f \in LvFractions : LvConstruct(ml, f[1], f[2])
    \/ LvCall
    \/ \E d \in AnyDraws \cup 0..9 : LvDraw(d)
    \/ LvReturn

\* C27: a list constructed with max_level < 1 behaves as max_level = 1; a
\* list constructed with an invalid promotion fraction (p_den <= 1,
\* p_num < 1 or p_num >= p_den) behaves as one constructed with 1/4: its
\* level chooser draws from 0 .. 3 and promotes iff the draw is below 1;
\* the level chosen is always in 1 .. max_level.
C27_ParametersClamped ==
    lv.built =>
        LET max_level == lv.args[1]
            p_num     == lv.args[2]
            p_den     == lv.args[3]
        IN  /\ lv.cfg.max_level_ = IF max_level < 1 THEN 1 ELSE max_level
            /\ (p_den <= 1 \/ p_num < 1 \/ p_num >= p_den) =>
                  /\ lv.cfg.p_num_ = 1
                  /\ lv.cfg.p_den_ = 4
                  /\ ~lv.cfg.ub
                  /\ lv.cfg.dist_ = 0..3
            /\ lv.ret \in 0..lv.cfg.max_level_
            /\ lv.lvl \in 0..lv.cfg.max_level_

\* ------------------------------------------------------------------------
\* A builder whose caller goes on after a rejected Add
\* ------------------------------------------------------------------------

MaxRetryCalls == 4

\* The keys passed to Add, in any order.
RetryKeys ==
    {<<>>, <<97>>, <<97, 98>>, <<98>>}

\* Add on a builder of either kind: the outcome and the members afterwards.
BuilderAdd(kind, b, key) ==
    IF kind = "data" THEN DataBlockBuilderAdd(b, key, ValueOf(key))
    ELSE IndexBlockBuilderAdd(b, key, SomeHandle)

\* Finish on a builder of either kind: the members afterwards.
BuilderFinish(kind, b) ==
    IF kind = "data" THEN DataBlockBuilderFinish(b)
    ELSE IndexBlockBuilderFinish(b)

\* No builder has been constructed.
RetryInit ==
    rj = [kind |-> "none", b |-> <<>>, twin |-> <<>>, log |-> <<>>,
          out |-> <<>>, twinOut |-> <<>>]

\* DataBlockBuilder b(2), twin(2);  or  IndexBlockBuilder b, twin;
RjConstruct(kind) ==
    /\ rj.kind = "none"
    /\ LET b == IF kind = "data" THEN DataBlockBuilder(2)
                ELSE IndexBlockBuilder
       IN  rj' = [rj EXCEPT !.kind = kind, !.b = b, !.twin = b]
    /\ UNCHANGED <<walVars, blockVars, indexVars, sstVars, fmtVars, bloomVars,
                   slVars, readVars, levelVars, fileVars>>

\* try { b.Add(key, ...); twin.Add(key, ...); } catch (...) {}: the twin gets
\* the calls the builder accepts.
RjAdd(key) ==
    /\ rj.kind # "none"
    /\ rj.out = <<>>
    /\ Len(rj.log) < MaxRetryCalls
    /\ LET res == BuilderAdd(rj.kind, rj.b, key)
       IN  rj' = [rj EXCEPT
                    !.b = res.b,
                    !.twin = IF res.status = "ok"
                             THEN BuilderAdd(rj.kind, rj.twin, key).b
                             ELSE rj.twin,
                    !.log = Append(rj.log, res.status)]
    /\ UNCHANGED <<walVars, blockVars, indexVars, sstVars, fmtVars, bloomVars,
                   slVars, readVars, levelVars, fileVars>>

\* out = b.Finish(); twinOut = twin.Finish();
RjFinish ==
    /\ rj.kind # "none"
    /\ rj.out = <<>>
    /\ LET b    == BuilderFinish(rj.kind, rj.b)
           twin == BuilderFinish(rj.kind, rj.twin)
       IN  rj' = [rj EXCEPT !.b = b, !.twin = twin, !.out = b.buffer_,
                            !.twinOut = twin.buffer_]
    /\ UNCHANGED <<walVars, blockVars, indexVars, sstVars, fmtVars, bloomVars,
                   slVars, readVars, levelVars, fileVars>>

RetryNext ==
    \/ \E kind \in {"data", "index"} : RjConstruct(kind)
    \/ \E key \in RetryKeys : RjAdd(key)
    \/ RjFinish

\* The messages of the out-of-order errors.
OutOfOrder ==
    {"DataBlockBuilder: keys must be strictly increasing",
     "IndexBlockBuilder: keys must be strictly increasing"}

\* C28: a rejected Add leaves a builder unchanged.  When Add of either
\* builder fails for an out-of-order key, buffer, restart or offset table,
\* last key and counter are as before the call; the builder stays equal to
\* a twin that never saw the rejected calls, so a following valid Add is
\* accepted by both and the block Finish returns is byte-identical to the
\* twin's.
C28_RejectedAddNoEffect ==
    /\ [](rj.kind # "none" =>
            /\ rj.b = rj.twin
            /\ rj.out = rj.twinOut
            /\ \A i \in 1..Len(rj.log) : rj.log[i] \in OutOfOrder \cup {"ok"})
    /\ [][(Len(rj.log') > Len(rj.log)
             /\ rj.log'[Len(rj.log')] \in OutOfOrder) => rj'.b = rj.b]_vars

\* A data block builder accepted a key, rejected one, accepted another and
\* was finished; an index block builder likewise.
C28_Witness ==
    /\ rj.kind = "data"
    /\ Len(rj.log) = 3
    /\ rj.log[1] = "ok"
    /\ rj.log[2] \in OutOfOrder
    /\ rj.log[3] = "ok"
    /\ Len(rj.b.restarts_) = 1
    /\ rj.out # <<>>

\* ------------------------------------------------------------------------
\* File manager: a writable or readable file over a descriptor
\* ------------------------------------------------------------------------

\* The system calls of one method call whose outcome is chosen freely; the
\* calls after these complete.
MaxSysCalls == 2

\* The file holds at most this many bytes.
MaxFileLen == 3

\* What one system call does: fail with an error other than EINTR (-2), be
\* interrupted (-1, errno = EINTR), transfer nothing (0), transfer one byte
\* (1) or transfer all that was asked for (2).
SysOutcomes ==
    {-2, -1, 0, 1, 2}

SysScripts ==
    [1..MaxSysCalls -> SysOutcomes]

\* The two sources of the file classes: the one that retries ("retrying")
\* and the one with a single system call per method ("single").
FileImpls ==
    {"retrying", "single"}

\* The outcome of the next system call, and the script after it.
NextOutcome(script) ==
    IF script = <<>> THEN 2 ELSE Head(script)

RestOf(script) ==
    IF script = <<>> THEN <<>> ELSE Tail(script)

\* The return value of write() or read() asked for `asked` bytes.
SysTransfer(o, asked) ==
    CASE o = 2 -> asked
      [] o = 1 -> IF asked < 1 THEN asked ELSE 1
      [] o = 0 -> 0
      [] OTHER -> -1

\* The return value of fsync() or close().
SysRc(o) ==
    IF o >= 0 THEN 0 ELSE -1

RECURSIVE WriteRetrying(_, _, _, _)
\* while (remaining > 0) { n = ::write(fd_, p, remaining); ... }
WriteRetrying(content, p, script, sys) ==
    IF Len(p) = 0
    THEN [ret |-> TRUE, content |-> content, sys |-> sys, stalled |-> FALSE]
    ELSE LET o == NextOutcome(script)
             n == SysTransfer(o, Len(p))
         IN  IF n < 0
             THEN IF o = -1
                  THEN WriteRetrying(content, p, RestOf(script), sys + 1)
                  ELSE [ret |-> FALSE, content |-> content, sys |-> sys + 1,
                        stalled |-> FALSE]
             ELSE IF n = 0
             THEN [ret |-> FALSE, content |-> content, sys |-> sys + 1,
                   stalled |-> TRUE]
             ELSE WriteRetrying(content \o Take(p, n), Drop(p, n),
                                RestOf(script), sys + 1)

\* bytes_written = write(fd_, data.data(), data.size());
\* return bytes_written == data.size();
WriteOnce(content, data, script) ==
    LET n == SysTransfer(NextOutcome(script), Len(data))
    IN  [ret |-> n = Len(data),
         content |-> IF n > 0 THEN content \o Take(data, n) ELSE content,
         sys |-> 1,
         stalled |-> n = 0 /\ Len(data) > 0]

\* PosixWritableFile::Write(data); the descriptor was opened with O_TRUNC by
\* this object and has no other writer, so its position is the end of the
\* file.
PosixWritableFileWrite(f, content, data, script) ==
    IF f.fd_ = -1
    THEN [ret |-> FALSE, content |-> content, sys |-> 0, stalled |-> FALSE]
    ELSE IF f.impl = "retrying"
    THEN WriteRetrying(content, data, script, 0)
    ELSE WriteOnce(content, data, script)

\* PosixWritableFile::Flush()
PosixWritableFileFlush(f) ==
    f.fd_ # -1

RECURSIVE RetryWhileInterrupted(_, _)
\* do { rc = call(fd_); } while (rc < 0 && errno == EINTR);
RetryWhileInterrupted(script, sys) ==
    LET o == NextOutcome(script)
    IN  IF o = -1 THEN RetryWhileInterrupted(RestOf(script), sys + 1)
        ELSE [rc |-> SysRc(o), sys |-> sys + 1]

\* The system call of Sync() and Close() with its return code.
CallOnDescriptor(f, script) ==
    IF f.impl = "retrying" THEN RetryWhileInterrupted(script, 0)
    ELSE [rc |-> SysRc(NextOutcome(script)), sys |-> 1]

\* PosixWritableFile::Sync()
PosixWritableFileSync(f, script) ==
    IF f.fd_ = -1 THEN [ret |-> FALSE, sys |-> 0]
    ELSE LET c == CallOnDescriptor(f, script)
         IN  [ret |-> c.rc = 0, sys |-> c.sys]

\* Close() that returns true on a closed object as it should, but leaves
\* fd_ as it is when it closes the descriptor.
PosixFileCloseKeepingFd(f, script) ==
    IF f.fd_ = -1 THEN [ret |-> TRUE, f |-> f, sys |-> 0]
    ELSE LET c == CallOnDescriptor(f, script)
         IN  [ret |-> c.rc = 0, f |-> f, sys |-> c.sys]

\* PosixWritableFile::Close() and PosixReadableFile::Close()
PosixFileClose(f, script) ==
    IF f.fd_ = -1 THEN [ret |-> TRUE, f |-> f, sys |-> 0]
    ELSE LET c == CallOnDescriptor(f, script)
         IN  [ret |-> c.rc = 0, f |-> [f EXCEPT !.fd_ = -1], sys |-> c.sys]

RECURSIVE ReadRetrying(_, _, _)
\* do { r = ::read(fd_, buf.data(), n); } while (r < 0 && errno == EINTR);
ReadRetrying(asked, script, sys) ==
    LET o == NextOutcome(script)
    IN  IF o = -1 THEN ReadRetrying(asked, RestOf(script), sys + 1)
        ELSE [r |-> SysTransfer(o, asked), sys |-> sys + 1]

\* PosixReadableFile::Read(n, result) with a non-null result: what it
\* returns, *result afterwards and the position of the descriptor.
PosixReadableFileRead(f, disk, n, result, script) ==
    IF f.fd_ = -1
    THEN [n |-> 0, result |-> result, offset |-> disk.offset, sys |-> 0]
    ELSE LET left == Len(disk.content) - disk.offset
             asked == IF n < left THEN n ELSE left
             c == IF f.impl = "retrying" THEN ReadRetrying(asked, script, 0)
                  ELSE [r |-> SysTransfer(NextOutcome(script), asked),
                        sys |-> 1]
             bytes == SubSeq(disk.content, disk.offset + 1,
                             disk.offset + c.r)
         IN  IF c.r < 0 \/ (c.r = 0 /\ f.impl = "retrying")
             THEN [n |-> 0, result |-> result, offset |-> disk.offset,
                   sys |-> c.sys]
             ELSE [n |-> c.r, result |-> bytes,
                   offset |-> disk.offset + c.r, sys |-> c.sys]

\* The strings given to Write.
WriteData ==
    {<<>>, <<97>>, <<98, 99>>}

\* What the caller's string holds before Read is called: "?".
Untouched ==
    <<63>>

NoCall ==
    [op |-> "none", data |-> <<>>, ret |-> FALSE, n |-> 0, out |-> <<>>,
     sys |-> 0, stalled |-> FALSE]

\* No file object, no file. fdisk.good is not part of the program: it is
\* the data of the calls of Write that returned true, in the order of the
\* calls.
FileInit ==
    /\ fileObj = [impl |-> "none", kind |-> "none", fd_ |-> -1]
    /\ fdisk = [exists |-> FALSE, content |-> <<>>, open |-> FALSE,
                offset |-> 0, good |-> <<>>]
    /\ fmOp = NoCall

\* fm.NewWritableFile(fname, file): open(O_WRONLY | O_CREAT | O_TRUNC)
\* succeeds and `file` owns the new object; the object it held before has
\* been closed.
FmNewWritableFile(impl) ==
    /\ ~fdisk.open
    /\ fileObj' = [impl |-> impl, kind |-> "writable", fd_ |-> 3]
    /\ fdisk' = [exists |-> TRUE, content |-> <<>>, open |-> TRUE,
                 offset |-> 0, good |-> <<>>]
    /\ fmOp' = [NoCall EXCEPT !.op = "NewWritableFile", !.ret = TRUE]
    /\ UNCHANGED <<walVars, blockVars, indexVars, sstVars, fmtVars, bloomVars,
                   slVars, readVars, levelVars, retryVars>>

\* fm.NewReadableFile(fname, file): false if the file does not exist.
FmNewReadableFile(impl) ==
    /\ ~fdisk.open
    /\ IF fdisk.exists
       THEN /\ fileObj' = [impl |-> impl, kind |-> "readable", fd_ |-> 3]
            /\ fdisk' = [fdisk EXCEPT !.open = TRUE, !.offset = 0]
       ELSE UNCHANGED <<fileObj, fdisk>>
    /\ fmOp' = [NoCall EXCEPT !.op = "NewReadableFile",
                              !.ret = fdisk.exists]
    /\ UNCHANGED <<walVars, blockVars, indexVars, sstVars, fmtVars, bloomVars,
                   slVars, readVars, levelVars, retryVars>>

\* file->Write(data)
FmWrite(data, script) ==
    /\ fileObj.kind = "writable"
    /\ fileObj.fd_ = -1 \/ Len(fdisk.content) + Len(data) <= MaxFileLen
    /\ LET w == PosixWritableFileWrite(fileObj, fdisk.content, data, script)
       IN  /\ fdisk' = [fdisk EXCEPT !.content = w.content,
                                     !.good = IF w.ret THEN @ \o data ELSE @]
           /\ fmOp' = [NoCall EXCEPT !.op = "Write", !.data = data,
                                     !.ret = w.ret, !.sys = w.sys,
                                     !.stalled = w.stalled]
    /\ UNCHANGED fileObj
    /\ UNCHANGED <<walVars, blockVars, indexVars, sstVars, fmtVars, bloomVars,
                   slVars, readVars, levelVars, retryVars>>

\* file->Flush()
FmFlush ==
    /\ fileObj.kind = "writable"
    /\ fmOp' = [NoCall EXCEPT !.op = "Flush",
                              !.ret = PosixWritableFileFlush(fileObj)]
    /\ UNCHANGED <<fileObj, fdisk>>
    /\ UNCHANGED <<walVars, blockVars, indexVars, sstVars, fmtVars, bloomVars,
                   slVars, readVars, levelVars, retryVars>>

\* file->Sync()
FmSync(script) ==
    /\ fileObj.kind = "writable"
    /\ LET s == PosixWritableFileSync(fileObj, script)
       IN  fmOp' = [NoCall EXCEPT !.op = "Sync", !.ret = s.ret,
                                  !.sys = s.sys]
    /\ UNCHANGED <<fileObj, fdisk>>
    /\ UNCHANGED <<walVars, blockVars, indexVars, sstVars, fmtVars, bloomVars,
                   slVars, readVars, levelVars, retryVars>>

\* file->Close(): the first close() releases the descriptor whatever it
\* returns.
FmClose(script) ==
    /\ fileObj.kind # "none"
    /\ LET c == PosixFileClose(fileObj, script)
       IN  /\ fileObj' = c.f
           /\ fdisk' = [fdisk EXCEPT !.open = IF c.sys > 0 THEN FALSE ELSE @]
           /\ fmOp' = [NoCall EXCEPT !.op = "Close", !.ret = c.ret,
                                     !.sys = c.sys]
    /\ UNCHANGED <<walVars, blockVars, indexVars, sstVars, fmtVars, bloomVars,
                   slVars, readVars, levelVars, retryVars>>

\* std::string result = "?"; file->Read(n, &result)
FmRead(n, script) ==
    /\ fileObj.kind = "readable"
    /\ LET r == PosixReadableFileRead(fileObj, fdisk, n, Untouched, script)
       IN  /\ fdisk' = [fdisk EXCEPT !.offset = r.offset]
           /\ fmOp' = [NoCall EXCEPT !.op = "Read", !.n = r.n,
                                     !.out = r.result, !.sys = r.sys]
    /\ UNCHANGED fileObj
    /\ UNCHANGED <<walVars, blockVars, indexVars, sstVars, fmtVars, bloomVars,
                   slVars, readVars, levelVars, retryVars>>

FileNext ==
    \/ \E impl \in FileImpls : FmNewWritableFile(impl)
    \/ \E impl \in FileImpls : FmNewReadableFile(impl)
    \/ \E data \in WriteData, script \in SysScripts : FmWrite(data, script)
    \/ FmFlush
    \/ \E script \in SysScripts : FmSync(script)
    \/ \E script \in SysScripts : FmClose(script)
    \/ \E n \in 0..2, script \in SysScripts : FmRead(n, script)

\* C22: once Close() has returned on a file object, fd_ is -1 for good:
\* every later Write returns false and leaves the file as it is, Flush and
\* Sync return false, Read returns 0 and leaves the caller's string as it
\* was, and Close returns true; none of them makes a system call.
C22_ClosedStaysClosed ==
    /\ [](fmOp.op = "Close" => fileObj.fd_ = -1 /\ ~fdisk.open)
    /\ [][(/\ fileObj.kind # "none" /\ fileObj.fd_ = -1
           /\ fmOp'.op \in {"Write", "Flush", "Sync", "Read", "Close"}) =>
              /\ fileObj' = fileObj
              /\ fdisk' = fdisk
              /\ fmOp'.sys = 0
              /\ fmOp'.op \in {"Write", "Flush", "Sync"} => ~fmOp'.ret
              /\ fmOp'.op = "Read" =>
                     fmOp'.n = 0 /\ fmOp'.out = Untouched
              /\ fmOp'.op = "Close" => fmOp'.ret]_vars

\* A Write on a closed writable file returned false; the file keeps the
\* three bytes written before the Close.
C22_Witness ==
    /\ fileObj.kind = "writable" /\ fileObj.fd_ = -1
    /\ fmOp.op = "Write" /\ fmOp.data = <<97>> /\ ~fmOp.ret
    /\ fdisk.content = <<98, 99, 97>>

\* C23: whenever Write(data) returns true the file has grown by exactly
\* the bytes of data and holds the data of the successful writes, one
\* directly after the other, also after short and interrupted system
\* calls; Write does not return true after transferring a part of data,
\* and returns false when a system call asked for bytes transfers none.
C23_WriteAppendsOrFails ==
    /\ [](fmOp.op = "Write" /\ fmOp.ret => fdisk.content = fdisk.good)
    /\ [](fmOp.op = "Write" /\ fmOp.stalled => ~fmOp.ret)
    /\ [][fmOp'.op = "Write" /\ fmOp'.ret =>
              fdisk'.content = fdisk.content \o fmOp'.data]_vars

\* ------------------------------------------------------------------------
\* Specifications
\* ------------------------------------------------------------------------

\* Every component as constructed: the data block builder with one of the
\* given restart intervals, the Bloom filter for one of the given
\* (expected_items, false_positive_rate), the skip list with one of the
\* given max_level.
Init(intervals, params, levels) ==
    /\ WalInit /\ BlockInit(intervals) /\ IndexInit /\ SstInit /\ FmtInit
    /\ BloomInit(params)
    /\ SlInit(levels)
    /\ ReadInit
    /\ LevelInit
    /\ RetryInit
    /\ FileInit

\* The data block builder with its default restart interval.
InitIdle == Init({16}, {<<0, 10000000>>}, {16})

SpecWal == InitIdle /\ [][WalNext]_vars

InitBlock == Init(RestartIntervals, {<<0, 10000000>>}, {16})

SpecBlock == InitBlock /\ [][BlockNext]_vars

SpecIndex == InitIdle /\ [][IndexNext]_vars

SpecIndexReuse == InitIdle /\ [][IndexReuseNext]_vars

InitSst == Init({2, 16}, {<<0, 10000000>>}, {16})

SpecSst == InitSst /\ [][SstNext]_vars

SpecFmt == InitIdle /\ [][FmtNext]_vars

InitBloom == Init({16}, BloomParams, {16})

SpecBloom == InitBloom /\ [][BloomNext]_vars

SpecBloomLoad == InitIdle /\ [][BloomLoadNext]_vars

InitSkipList == Init({16}, {<<0, 10000000>>}, SlMaxLevels)

SpecSkipList == InitSkipList /\ [][SlNext]_vars

SpecRead == InitIdle /\ [][ReadNext]_vars

SpecLevel == InitIdle /\ [][LevelNext]_vars

SpecRetry == InitIdle /\ [][RetryNext]_vars

\* The file manager: files are created, written, read and closed, with
\* every outcome of every system call.
SpecFile == InitIdle /\ [][FileNext]_vars

====
